---- MODULE Spec2Model ----
(***************************************************************************)
(* Simstim bridge: the permission-request lifecycle.                       *)
(*                                                                         *)
(* PermissionQueue (bridge/permission_queue.py) and the part of the        *)
(* orchestrator that drives it, Deck._handle_permission and Deck._cleanup  *)
(* (deck.py).  Everything runs on one asyncio event loop, so each action   *)
(* below is the code a coroutine executes between two suspension points.   *)
(***************************************************************************)
EXTENDS Integers, Sequences, FiniteSets, TLC

\* ------------------------------------------------------------------ bounds
NumPrompts == 2        \* permission prompts parsed from the subprocess output
NumUsers == 1          \* chat identities that may press a button

Prompts == 1..NumPrompts           \* one _handle_permission task per prompt
Users == 1..NumUsers
UnknownId == NumPrompts + 1        \* a request id no request ever carried
Ids == 1..UnknownId
None == 0                          \* Python None for a request / future slot

\* ------------------------------------------------------------------- state
VARIABLES
    default_action,     \* PermissionQueue._default_action
    running,            \* Deck._running
    pending,            \* PermissionQueue._pending: id -> request (its prompt)
    response_futures,   \* PermissionQueue._response_futures: id -> future
    fut_state,          \* per future: "nofuture" | "pending" | "done"
    fut_result,         \* per future: the PermissionResponse set on it
    timeout_task,       \* request.timeout_task: "notask"|"sleeping"|"done"|"cancelled"
    pc,                 \* position of each _handle_permission task
    notified,           \* the chat message with the buttons reached the human
    injected,           \* answers passed to monitor.inject, per prompt
    received,           \* the response add() returned to its caller
    audit_log,          \* records appended to the audit log
    settled,            \* history: resolver kinds that set the future's result
    accepted,           \* history: the response of the first successful resolver
    respond_true,       \* history: respond() calls that returned True, per id
    last_cancel,        \* <<TRUE, return value>> of the cancel_all() call that made
                        \* the last step, <<FALSE, 0>> after any other step
    authorized_users,   \* SecurityConfig.authorized_users
    allow_anonymous,    \* SecurityConfig.allow_anonymous
    signer,             \* keyboards._signer: the key of the installed signer
    reply,              \* what _handle_callback did with the last callback
    policy_config,      \* config.policies, the list PolicyEngine is built from
    policies,           \* PolicyEngine._policies
    evaluation_count,   \* PolicyEngine._evaluation_count
    policy_result,      \* the PolicyEvaluationResult of the last evaluate()
    log_file,           \* the records in the file at AuditLogger._log_path
    rotated,            \* the rotated files .jsonl.1, .jsonl.2, ... in that order
    max_size,           \* AuditLogger._max_size, in records
    last_hash,          \* AuditLogger._last_hash
    event_count,        \* AuditLogger._event_count
    verify_result,      \* what the last verify_audit_log() examined and returned
    log_pc,             \* per caller of log(): "idle" | "signed" | "written"
    log_entry,          \* per caller of log(): the log_entry dict it has built
    log_calls,          \* log() calls begun
    user_states,        \* RateLimiter._user_states: identity -> UserRateState
    now,                \* datetime.now(timezone.utc), in seconds
    rate_result,        \* the last RateLimiter call and what it returned
    rate_ops,           \* record_* calls made on the RateLimiter
    sig_clock,          \* int(time.time())
    sig_input,          \* the payload last given to CallbackSigner.sign
    sig_token,          \* the string sign() returned for it
    sig_data,           \* the string last given to CallbackSigner.verify
    sig_out,            \* what verify() returned for it
    offline_queue,      \* OfflineQueue._queue
    offline_clock,      \* datetime.now(timezone.utc), in seconds
    offline_result,     \* the last OfflineQueue call and what it did
    enqueued,           \* enqueue() calls made
    manager,            \* the ReconnectionManager's fields
    loops,              \* per attempt_reconnect() call: where it is and what it did
    lock,               \* OfflineQueue._lock: asyncio.Lock, its _locked and _waiters
    flushing            \* the frame of the flush() coroutine

queueVars == <<pending, response_futures, fut_state, fut_result, timeout_task>>
deckVars == <<pc, notified, injected, received, audit_log>>
histKeep == <<settled, accepted, respond_true>>
histVars == <<histKeep, last_cancel>>
botVars == <<authorized_users, allow_anonymous, signer, reply>>
\* the components the permission lifecycle does not touch
policyVars == <<policy_config, policies, evaluation_count, policy_result>>
auditVars == <<log_file, rotated, max_size, last_hash, event_count, verify_result>>
\* one log() call taken statement by statement
stepVars == <<log_pc, log_entry, log_calls>>
\* the components modelled statement by statement or on their own clock
rateVars == <<user_states, now, rate_result, rate_ops>>
signVars == <<sig_clock, sig_input, sig_token, sig_data, sig_out>>
offlineVars == <<offline_queue, offline_clock, offline_result, enqueued>>
reconnectVars == <<manager, loops>>
flushVars == <<lock, flushing>>
extraVars == <<reconnectVars, flushVars>>
sideVars == <<stepVars, rateVars, signVars, offlineVars, extraVars>>
compVars == <<botVars, policyVars, auditVars, sideVars>>
\* the permission lifecycle
lifeVars == <<default_action, running, queueVars, deckVars, histVars>>
vars == <<lifeVars, compVars>>

\* ------------------------------------------------------------- data model
\* PermissionRequest.id: a fresh uuid4 prefix per request
RequestId(p) == p

\* PermissionResponse (response_time left out: no code reads it)
Response(id, approved, by, auto, policy) ==
    [request_id |-> id, approved |-> approved, responded_by |-> by,
     auto_approved |-> auto, policy_name |-> policy]

NoResponse == Response(None, FALSE, 0, FALSE, "none")

\* no cancel_all() call made the last step
NoCancel == <<FALSE, 0>>

\* the response SimstimBot._handle_permission_response builds for a button
HumanResponse(id, user, approved) == Response(id, approved, user, FALSE, "none")

\* bug variant: the timeout always denies
TimeoutResponseDeny(id) == Response(id, FALSE, 0, TRUE, "timeout")

\* the response _timeout_handler synthesizes
TimeoutResponse(id) ==
    Response(id, default_action = "approve", 0, TRUE, "timeout")

\* the response cancel_all synthesizes
CancelResponse(id) == Response(id, FALSE, 0, TRUE, "cancelled")

\* ------------------------------------------------------- PermissionQueue
\* `future and not future.done()` for the future stored under id
FutureOpen(id) ==
    /\ response_futures[id] # None
    /\ fut_state[response_futures[id]] = "pending"

\* bug variant: respond() without the `not future.done()` test
RespondAcceptsNoDoneCheck(id) ==
    /\ pending[id] # None
    /\ response_futures[id] # None

\* respond(): the condition under which the response is accepted, which is
\* also the value it returns
RespondAccepts(id) ==
    /\ pending[id] # None
    /\ FutureOpen(id)

\* bug variant: respond() takes the future out of the table (pop for get)
RespondFuturesPop(id) == [response_futures EXCEPT ![id] = None]

\* respond(): the future table after `self._response_futures.get(request_id)`
RespondFutures(id) == response_futures

\* bug variant: _timeout_handler without the `not future.done()` test
TimeoutResolvesNoDoneCheck(id) ==
    /\ pending[id] # None
    /\ response_futures[id] # None

\* _timeout_handler(): the condition under which it resolves the request
TimeoutResolves(id) ==
    /\ pending[id] # None
    /\ FutureOpen(id)

\* bug variant: cancel_all with the done() test inverted
CancelTargetsInverted ==
    {id \in Ids : /\ pending[id] # None
                  /\ response_futures[id] # None
                  /\ fut_state[response_futures[id]] = "done"}

\* cancel_all(): the ids whose future it resolves
CancelTargets == {id \in Ids : pending[id] # None /\ FutureOpen(id)}

\* cancel_all(): count = len(self._pending)
CancelCount == Cardinality({id \in Ids : pending[id] # None})

\* pending_count
pending_count == Cardinality({id \in Ids : pending[id] # None})

\* get_pending(request_id) / get_all_pending()
get_pending(id) == pending[id]
get_all_pending == {pending[id] : id \in {i \in Ids : pending[i] # None}}

\* future.set_result(resp) on future f, by a resolver of the given kind
SetResult(f, resp, kind) ==
    /\ fut_state' = [fut_state EXCEPT ![f] = "done"]
    /\ fut_result' = [fut_result EXCEPT ![f] = resp]
    /\ settled' = [settled EXCEPT ![f] = Append(@, kind)]
    /\ accepted' = [accepted EXCEPT ![f] = IF settled[f] = <<>> THEN resp ELSE @]

\* bug variant: _cleanup leaves the request in the table
CleanupPendingLeak(id) == pending

\* _cleanup(): self._pending.pop(request_id, None)
CleanupPending(id) == [pending EXCEPT ![id] = None]

\* bug variant: _cleanup leaves the timeout task running
CleanupTimersLeft(id) == timeout_task

\* _cleanup(): request.timeout_task.cancel() for the popped request
CleanupTimers(id) ==
    IF pending[id] # None /\ timeout_task[pending[id]] = "sleeping"
    THEN [timeout_task EXCEPT ![pending[id]] = "cancelled"]
    ELSE timeout_task

\* _cleanup(): self._response_futures.pop(request_id, None)
CleanupFutures(id) == [response_futures EXCEPT ![id] = None]

\* ------------------------------------------------------ Telegram callbacks
Stranger == NumUsers + 1           \* an identity that is on no allow-list
Senders == Users \cup {Stranger}

\* SecurityConfig.is_authorized(user_id)
is_authorized(user) ==
    IF allow_anonymous THEN TRUE
    ELSE IF authorized_users = {} THEN FALSE
    ELSE user \in authorized_users

NoSigner == "none"                 \* keyboards._signer is None
BridgeKey == "bridge"              \* the secret key of the bridge's CallbackSigner
ForgedKey == "forged"              \* any other key

CALLBACK_MAX_AGE_SECONDS == 300
ClockSkew == 60
\* int(time.time()) as verify() reads it
ClockNow == CALLBACK_MAX_AGE_SECONDS + 1
\* the timestamps a token may carry, around the two limits verify() tests
TokenTimes ==
    {ClockNow - CALLBACK_MAX_AGE_SECONDS - 1, ClockNow - CALLBACK_MAX_AGE_SECONDS,
     ClockNow, ClockNow + ClockSkew, ClockNow + ClockSkew + 1}

IdLenMin == 8
IdLenMax == 64
UuidPrefixLen == 8
SigChars == 22

\* the text of a request id: its length, whether all its characters are
\* letters, digits or hyphens, and the request id it spells
IdText(len, clean, id) == [len |-> len, clean |-> clean, id |-> id]

\* str(uuid4())[:8], the id text a keyboard is built with
RequestIdText(id) == IdText(UuidPrefixLen, TRUE, id)

EmptyIdText == IdText(0, TRUE, UnknownId)

\* validate_callback_request_id(request_id).valid
validate_callback_request_id(r) ==
    /\ r.len # 0
    /\ r.clean
    /\ r.len >= IdLenMin
    /\ r.len <= IdLenMax

\* callback payload "action:request_id"
Payload(action, r) == [action |-> action, request_id |-> r]

\* HMAC-SHA256 under key over "payload|timestamp", as an ideal MAC: two
\* digests are equal exactly when key and message are equal
HMAC(key, payload, ts) == [key |-> key, payload |-> payload, timestamp |-> ts]

NoSignature == HMAC(NoSigner, Payload("", EmptyIdText), 0)

\* callback data without a signature: one "|"-separated part
Plain(payload) ==
    [parts |-> 1, payload |-> payload, timestamp |-> 0, signature |-> NoSignature]

\* CallbackSigner.sign(payload) at time ts: "payload|timestamp|signature"
Sign(key, payload, ts) ==
    [parts |-> 3, payload |-> payload, timestamp |-> ts,
     signature |-> HMAC(key, payload, ts)]

\* CallbackSigner.verify(signed_data) is not None, for a signer holding key
Verify(key, d) ==
    /\ d.parts = 3
    /\ ~(ClockNow - d.timestamp > CALLBACK_MAX_AGE_SECONDS)
    /\ ~(d.timestamp > ClockNow + ClockSkew)
    /\ d.signature = HMAC(key, d.payload, d.timestamp)

\* decimal digits of a timestamp
Digits(n) == IF n < 10 THEN 1 ELSE IF n < 100 THEN 2 ELSE 3

\* what payload.split(":", 2) yields for the whole data when nothing is
\* verified: the "|timestamp|signature" tail stays on the request id
RawPayload(d) ==
    IF d.parts = 1 THEN d.payload
    ELSE Payload(d.payload.action,
                 IdText(d.payload.request_id.len + 1 + Digits(d.timestamp) + 1 + SigChars,
                        FALSE, UnknownId))

\* CallbackAction values
CallbackActions == {"approve", "deny", "cancel", "halt", "confirm"}

\* parse_callback_data(data): the payload that is split
ParsedPayload(d) == IF signer # NoSigner THEN d.payload ELSE RawPayload(d)

\* parse_callback_data(data) returns (does not raise ValueError)
ParseOK(d) ==
    /\ signer # NoSigner => Verify(signer, d)
    /\ ParsedPayload(d).action \in CallbackActions

\* the key PermissionQueue._pending is looked up with for an id text
QueueId(r) == r.id

\* what _handle_callback did with a callback: the branch it took, the
\* sender, whether the data was a fresh token signed with the bridge's key,
\* and whether the request id it parsed passes validate_callback_request_id
Reply(kind, user, signed_ok, id_ok) ==
    [kind |-> kind, user |-> user, signed_ok |-> signed_ok, id_ok |-> id_ok]

NoReply == Reply("none", 0, FALSE, FALSE)

\* bug variant: _handle_callback without the authorization test
HandlerOutcomeNoAuth(user, d) ==
    IF ~ParseOK(d) THEN "invalid_data"
    ELSE IF ParsedPayload(d).action \notin {"approve", "deny"} THEN "ignored"
    ELSE IF ParsedPayload(d).request_id.len = 0 THEN "invalid_request"
    ELSE "respond"

\* the branch _handle_callback and _handle_permission_response take
HandlerOutcome(user, d) ==
    IF ~is_authorized(user) THEN "unauthorized"
    ELSE IF ~ParseOK(d) THEN "invalid_data"
    ELSE IF ParsedPayload(d).action \notin {"approve", "deny"} THEN "ignored"
    ELSE IF ParsedPayload(d).request_id.len = 0 THEN "invalid_request"
    ELSE "respond"

\* the callback data a chat client may send
ButtonPayloads ==
    {Payload(a, r) : a \in {"approve", "deny"},
                     r \in {RequestIdText(id) : id \in Ids} \cup
                           {EmptyIdText,
                            IdText(IdLenMin - 1, TRUE, UnknownId),
                            IdText(IdLenMin, FALSE, UnknownId),
                            IdText(IdLenMax, TRUE, UnknownId),
                            IdText(IdLenMax + 1, TRUE, UnknownId)}}
    \cup {Payload(a, EmptyIdText) : a \in {"halt", "bogus"}}

\* the payloads the bridge signs: the two buttons of a permission keyboard
\* built for a request id, and the halt button
BridgePayloads ==
    {Payload(a, RequestIdText(id)) : a \in {"approve", "deny"}, id \in Ids}
    \cup {Payload("halt", EmptyIdText)}

\* unsigned data, the bridge's tokens of any age, tokens signed with another
\* key, and bridge tokens whose payload or timestamp was replaced afterwards
CallbackData ==
    {Plain(pl) : pl \in ButtonPayloads}
    \cup {Sign(BridgeKey, pl, ts) : pl \in BridgePayloads, ts \in TokenTimes}
    \cup {Sign(ForgedKey, pl, ClockNow) : pl \in ButtonPayloads}
    \cup UNION {{[Sign(BridgeKey, pl, ClockNow) EXCEPT !.payload = q] :
                    q \in ButtonPayloads \ {pl}} : pl \in BridgePayloads}
    \cup {[Sign(BridgeKey, pl, ClockNow - CALLBACK_MAX_AGE_SECONDS - 1)
             EXCEPT !.timestamp = ClockNow] : pl \in BridgePayloads}

\* ---------------------------------------- CallbackSigner, character by character
\* characters are numbered by their base64url value, the characters outside
\* that alphabet follow
B64Size == 64
DigitZero == 52        \* "0"; "1" to "9" follow
Minus == 62            \* "-"
Underscore == 63       \* "_"
Bar == 64              \* "|"
Colon == 65            \* ":"
PadChar == 66          \* "="
SignEpoch == 100       \* the clock when the signer is created

\* a character of known value
Ch(c) == [c |-> c, of |-> <<>>]
\* the i-th base64url character of the digest of msg under key: a character
\* of the alphabet that differs from every character it is replaced by
Dg(key, msg, i) == [c |-> -1, of |-> <<key, msg, i>>]

Text(codes) == [i \in 1..Len(codes) |-> Ch(codes[i])]

\* f"{timestamp}"
RECURSIVE Str(_)
Str(n) ==
    IF n < 10 THEN <<DigitZero + n>> ELSE Str(n \div 10) \o <<DigitZero + (n % 10)>>

IsDigit(ch) == ch.c >= DigitZero /\ ch.c < DigitZero + 10

RECURSIVE DigitsValue(_, _)
DigitsValue(str, acc) ==
    IF str = <<>> THEN acc
    ELSE IF IsDigit(Head(str)) THEN DigitsValue(Tail(str), 10 * acc + Head(str).c - DigitZero)
    ELSE DigitsValue(Tail(str), acc)

\* int(timestamp_str): an optional sign, then digits with single underscores
\* between them; anything else raises ValueError
ParseInt(str) ==
    LET neg == str # <<>> /\ str[1] = Ch(Minus)
        body == IF neg THEN Tail(str) ELSE str
        ok == /\ body # <<>>
              /\ IsDigit(body[1]) /\ IsDigit(body[Len(body)])
              /\ \A i \in 1..Len(body) : IsDigit(body[i]) \/ body[i] = Ch(Underscore)
              /\ \A i \in 1..Len(body) - 1 :
                    ~(body[i] = Ch(Underscore) /\ body[i + 1] = Ch(Underscore))
    IN [ok |-> ok,
        value |-> IF ~ok THEN 0
                  ELSE IF neg THEN 0 - DigitsValue(body, 0) ELSE DigitsValue(body, 0)]

HeadChars == SigChars - 2          \* the characters that carry whole bytes only

\* the sixteenth byte of the truncated digest: some byte
LastByte(msg) == (7 * Len(msg) + 3) % 256

\* message.encode(): the values of the characters
Encoded(msg) == [i \in 1..Len(msg) |-> msg[i].c]

\* hmac.new(key, message.encode(), sha256).digest()[:16] as an ideal MAC:
\* the first fifteen bytes, written as the characters that encode them,
\* differ whenever key or message differ
Digest(key, msg) ==
    [head |-> [i \in 1..HeadChars |-> Dg(key, Encoded(msg), i)], last |-> LastByte(msg)]

NoBytes == [head |-> <<>>, last |-> -1]

\* base64.urlsafe_b64encode(signature[:16]).decode().rstrip("="): the last
\* byte fills the 21st character and the two high bits of the 22nd
Encode(digest) ==
    digest.head \o <<Ch(digest.last \div 4), Ch((digest.last % 4) * 16)>>

\* base64.urlsafe_b64decode(sig_padded): characters outside the alphabet
\* are dropped, which leaves a count that cannot be decoded; the four low
\* bits of the last character are dropped; NoBytes for an error and for a
\* result that is not sixteen bytes
Decode(sig) ==
    IF /\ Len(sig) = SigChars
       /\ \A i \in 1..SigChars : sig[i].c < B64Size
    THEN [head |-> SubSeq(sig, 1, HeadChars),
          last |-> sig[SigChars - 1].c * 4 + sig[SigChars].c \div 16]
    ELSE NoBytes

\* CallbackSigner.sign(payload) at time t
sign(key, payload, t) ==
    LET message == payload \o <<Ch(Bar)>> \o Text(Str(t))
    IN message \o <<Ch(Bar)>> \o Encode(Digest(key, message))

\* bug variant: the string is split at its first two separators
LSplit(str) ==
    LET bars == {i \in 1..Len(str) : str[i] = Ch(Bar)}
    IN IF Cardinality(bars) < 2 THEN <<>>
       ELSE LET j1 == CHOOSE i \in bars : \A j \in bars : i <= j
                j2 == CHOOSE i \in bars \ {j1} : \A j \in bars \ {j1} : i <= j
            IN <<SubSeq(str, 1, j1 - 1), SubSeq(str, j1 + 1, j2 - 1),
                 SubSeq(str, j2 + 1, Len(str))>>

\* signed_data.rsplit("|", 2) when it has three parts, <<>> otherwise
RSplit(str) ==
    LET bars == {i \in 1..Len(str) : str[i] = Ch(Bar)}
    IN IF Cardinality(bars) < 2 THEN <<>>
       ELSE LET j2 == CHOOSE i \in bars : \A j \in bars : i >= j
                j1 == CHOOSE i \in bars \ {j2} : \A j \in bars \ {j2} : i >= j
            IN <<SubSeq(str, 1, j1 - 1), SubSeq(str, j1 + 1, j2 - 1),
                 SubSeq(str, j2 + 1, Len(str))>>

\* SignedCallbackData, valid FALSE for None
Output(valid, payload, timestamp) ==
    [valid |-> valid, payload |-> payload, timestamp |-> timestamp]

NoOutput == Output(FALSE, <<>>, 0)

\* CallbackSigner.verify(signed_data, max_age) at time t
verify(key, signed_data, max_age, t) ==
    LET parts == RSplit(signed_data)
    IN IF parts = <<>> THEN NoOutput
       ELSE LET timestamp == ParseInt(parts[2])
                expected == Digest(key, parts[1] \o <<Ch(Bar)>> \o parts[2])
                received_sig == Decode(parts[3])
            IN IF ~timestamp.ok THEN NoOutput
               ELSE IF t - timestamp.value > max_age THEN NoOutput
               ELSE IF timestamp.value > t + ClockSkew THEN NoOutput
               ELSE IF received_sig = NoBytes THEN NoOutput
               ELSE IF expected # received_sig THEN NoOutput
               ELSE Output(TRUE, parts[1], timestamp.value)

\* the payloads signed: "a:b", "a|b", "a|1" and ""
SignPayloads ==
    {Text(<<0, Colon, 1>>), Text(<<0, Bar, 1>>), Text(<<0, Bar, DigitZero + 1>>), <<>>}

\* the characters a character of a token is replaced by: of each quarter of
\* the alphabet one with its four low bits clear and one with a low bit set,
\* two digits, and the characters with a meaning of their own
Replacements ==
    {q * 16 + low : q \in 0..3, low \in 0..1}
    \cup {DigitZero, DigitZero + 1, Minus, Underscore, Bar, Colon, PadChar}

\* the strings that differ from str in exactly one character
Mutations(str) ==
    {[str EXCEPT ![i] = Ch(c)] : i \in 1..Len(str), c \in Replacements} \ {str}

\* ----------------------------------------------------------- OfflineQueue
queue_max_size == 2    \* OfflineQueue._max_size
max_age_seconds == 2   \* OfflineQueue._max_age
MaxEnqueues == 3       \* enqueue() calls followed
MaxOfflineClock == 2   \* seconds followed

Priorities == {0, 1}
\* what the handler does with an event: returns True, returns False, raises
Outcomes == {"true", "false", "raise"}

\* QueuedEvent, id telling the events apart: the number of the enqueue()
\* call that brought it
QueuedEvent(id, priority, timestamp) ==
    [id |-> id, priority |-> priority, timestamp |-> timestamp]

NoEvent == QueuedEvent(0, 0, 0)

\* _prune_old_events() at time t
PrunedQueue(queue, t) ==
    SelectSeq(queue, LAMBDA e : t - e.timestamp < max_age_seconds)

\* key=lambda e: (-e.priority, e.timestamp): a sorts before b
KeyLess(a, b) ==
    \/ a.priority > b.priority
    \/ a.priority = b.priority /\ a.timestamp < b.timestamp

\* sorted(queue, key=...), stable: among equal keys the queue order is kept
RECURSIVE Sorted(_)
Sorted(queue) ==
    IF queue = <<>> THEN <<>>
    ELSE LET i == CHOOSE i \in 1..Len(queue) :
                      /\ \A j \in 1..Len(queue) : ~KeyLess(queue[j], queue[i])
                      /\ \A j \in 1..(i - 1) : KeyLess(queue[i], queue[j])
         IN <<queue[i]>> \o Sorted(SubSeq(queue, 1, i - 1) \o SubSeq(queue, i + 1, Len(queue)))

\* bug variant: an event whose handler raised is not kept
RequeuedFalseOnly(outcome) == outcome = "false"

\* flush(): the event is appended to remaining
Requeued(outcome) == outcome # "true"

\* what an OfflineQueue call did: the event enqueue() dropped for room, the
\* handler calls flush() made with their outcomes, and the value returned
QueueCall(op, dropped, calls, returned) ==
    [op |-> op, dropped |-> dropped, calls |-> calls, returned |-> returned]

NoQueueCall == QueueCall("none", NoEvent, <<>>, 0)

\* ------------------------------------------------ OfflineQueue.flush, by await
\* asyncio.Lock(): not locked, nobody waiting
FreeLock == [locked |-> FALSE, waiters |-> <<>>]

\* flush(handler) not called, and its locals once it runs
NoFlush == [pc |-> "idle", sorted_events |-> <<>>, i |-> 0, remaining |-> <<>>, processed |-> 0]

\* an enqueue(event) call suspended in "async with self._lock", made by the
\* flush handler or by another task
Waiter(by, event) == [by |-> by, event |-> event]

\* the body of enqueue(event) under the lock
Enqueued(queue, event, t) ==
    LET kept == PrunedQueue(queue, t)
    IN Append(IF Len(kept) >= queue_max_size THEN Tail(kept) ELSE kept, event)

\* ----------------------------------------------------- ReconnectionManager
initial_delay == 1     \* ReconnectionManager(initial_delay=...), in seconds
max_delay == 4         \* ReconnectionManager(max_delay=...)
backoff_factor == 2    \* ReconnectionManager(backoff_factor=...)
MaxAttempts == 2       \* the max_attempts given besides 0 (unlimited)
NumCalls == 2          \* attempt_reconnect() calls made on the manager
MaxConnects == 4       \* connect_fn() calls made in all

Calls == 1..NumCalls

\* the fields __init__ sets; _jitter only scales the sleep, _last_attempt is
\* written and never read
Manager(attempts) ==
    [max_attempts |-> attempts, attempt_count |-> 0, is_reconnecting |-> FALSE,
     current_delay |-> initial_delay, successful_connections |-> 0]

\* an attempt_reconnect() call: its position, the connect_fn it was given,
\* the connect_fn() and on_failure() calls it made, what it returned, and
\* whether cancel() was called while it was in its loop
NoLoop ==
    [pc |-> "idle", connect_fn |-> "none", connects |-> 0, failures |-> 0,
     returned |-> "none", cancelled |-> FALSE]

\* the positions inside "while True"
InLoop == {"connecting", "sleeping", "on_failure"}

Running(l) == l.pc \in InLoop

\* what "await connect_fn()" can do: a connect function that never succeeds
\* returns False or raises
ConnectOutcomes(connect_fn) ==
    IF connect_fn = "failing" THEN {"false", "raise"} ELSE {"true", "false", "raise"}

\* self._attempt_count += 1
Attempted(m) == [m EXCEPT !.attempt_count = @ + 1]

\* self._max_attempts > 0 and self._attempt_count > self._max_attempts
Exceeded(m) == m.max_attempts > 0 /\ m.attempt_count > m.max_attempts

\* _reset(), after self._successful_connections += 1
Connected(m) ==
    [m EXCEPT !.successful_connections = @ + 1,
              !.current_delay = initial_delay,
              !.attempt_count = 0]

\* self._current_delay = min(self._current_delay * self._backoff_factor, self._max_delay)
Delayed(m) ==
    [m EXCEPT !.current_delay =
        IF @ * backoff_factor < max_delay THEN @ * backoff_factor ELSE max_delay]

\* the finally clause
Finished(m) == [m EXCEPT !.is_reconnecting = FALSE]

ConnectsMade == LET RECURSIVE Sum(_)
                    Sum(t) == IF t = 0 THEN 0 ELSE loops[t].connects + Sum(t - 1)
                IN Sum(Len(loops))

\* ------------------------------------------------------------ PolicyEngine
NumPolicies == 2       \* length of the configured policy list
MaxEvaluations == 2    \* evaluate() calls followed

\* RISK_ORDER
RISK_ORDER == <<"low", "medium", "high", "critical">>

\* str.lower() on the level names used here
Lower(str) ==
    IF str = "HIGH" THEN "high" ELSE str

\* RISK_ORDER.index(x) does not raise ValueError
InRiskOrder(x) == \E i \in 1..Len(RISK_ORDER) : RISK_ORDER[i] = x

\* RISK_ORDER.index(x)
RiskIndex(x) == CHOOSE i \in 1..Len(RISK_ORDER) : RISK_ORDER[i] = x

\* bug variant: an unknown level counts as acceptable
RiskAcceptableOpen(max_risk, actual_risk) ==
    IF InRiskOrder(Lower(max_risk)) /\ InRiskOrder(Lower(actual_risk))
    THEN RiskIndex(Lower(actual_risk)) <= RiskIndex(Lower(max_risk))
    ELSE TRUE

\* PolicyEngine._risk_acceptable(max_risk, actual_risk)
risk_acceptable(max_risk, actual_risk) ==
    IF InRiskOrder(Lower(max_risk)) /\ InRiskOrder(Lower(actual_risk))
    THEN RiskIndex(Lower(actual_risk)) <= RiskIndex(Lower(max_risk))
    ELSE FALSE

\* fnmatch(name, pat) on character sequences: "*" matches any run of
\* characters, "?" any one character, every other character itself
RECURSIVE fnmatch(_, _)
fnmatch(name, pat) ==
    IF pat = <<>> THEN name = <<>>
    ELSE IF Head(pat) = "*"
         THEN fnmatch(name, Tail(pat)) \/ (name # <<>> /\ fnmatch(Tail(name), pat))
    ELSE IF Head(pat) = "?"
         THEN name # <<>> /\ fnmatch(Tail(name), Tail(pat))
    ELSE name # <<>> /\ Head(name) = Head(pat) /\ fnmatch(Tail(name), Tail(pat))

\* c in str
Contains(str, c) == \E i \in 1..Len(str) : str[i] = c

\* str.index(c), counted from 1
IndexOf(str, c) ==
    CHOOSE i \in 1..Len(str) : str[i] = c /\ \A j \in 1..(i - 1) : str[j] # c

\* str.split(",")
RECURSIVE SplitComma(_)
SplitComma(str) ==
    IF ~Contains(str, ",") THEN <<str>>
    ELSE <<SubSeq(str, 1, IndexOf(str, ",") - 1)>>
         \o SplitComma(SubSeq(str, IndexOf(str, ",") + 1, Len(str)))

\* PolicyEngine._pattern_matches(pattern, target), brace alternatives included
pattern_matches(pattern, target) ==
    IF Contains(pattern, "{") /\ Contains(pattern, "}")
    THEN LET start == IndexOf(pattern, "{")
             end == IndexOf(pattern, "}")
             prefix == SubSeq(pattern, 1, start - 1)
             suffix == SubSeq(pattern, end + 1, Len(pattern))
             alternatives == SplitComma(SubSeq(pattern, start + 1, end - 1))
         IN \E i \in 1..Len(alternatives) :
                fnmatch(target, prefix \o alternatives[i] \o suffix)
    ELSE fnmatch(target, pattern)

\* config.Policy
Policy(name, enabled, action, pattern, max_risk) ==
    [name |-> name, enabled |-> enabled, action |-> action,
     pattern |-> pattern, max_risk |-> max_risk]

NoPolicy == Policy(0, FALSE, "none", <<>>, "none")

\* PolicyEvaluationResult with its PolicyMatch (reason and evaluated_at left
\* out: no code reads them)
Result(matched, policy, decision, checked, action, target, risk) ==
    [matched |-> matched, policy |-> policy, decision |-> decision,
     policies_checked |-> checked, action |-> action, target |-> target,
     risk_level |-> risk]

NoResult == Result(FALSE, NoPolicy, "none", 0, "none", <<>>, "none")

\* bug variant: PolicyEngine.__init__ keeps disabled policies
EnabledNoFilter(config) == config

\* PolicyEngine.__init__: [p for p in policies if p.enabled]
Enabled(config) == SelectSeq(config, LAMBDA pol : pol.enabled)

\* the policies evaluate() skips: action differs or pattern does not match
Applies(policy, action, target) ==
    /\ policy.action = action
    /\ pattern_matches(policy.pattern, target)

\* evaluate(): the loop over self._policies from position i on
RECURSIVE EvaluateFrom(_, _, _, _, _)
EvaluateFrom(i, action, target, risk, checked) ==
    IF i > Len(policies)
    THEN Result(FALSE, NoPolicy, "require_manual", checked, action, target, risk)
    ELSE IF ~Applies(policies[i], action, target)
         THEN EvaluateFrom(i + 1, action, target, risk, checked)
    ELSE IF ~risk_acceptable(policies[i].max_risk, risk)
         THEN Result(FALSE, policies[i], "require_manual", checked, action, target, risk)
    ELSE Result(TRUE, policies[i], "auto_approve", checked, action, target, risk)

\* ------------------------------------------------------------ AuditLogger
MaxEvents == 3         \* log() calls followed
rotate_count == 5

AuditKey == "audit-key"            \* AuditLogger._hmac_key
\* the canonical JSON of the events logged: json.dumps(event.to_dict(),
\* separators=(',', ':'), sort_keys=True)
AuditEvents == {"simstim_started", "permission_approved"}

EmptyHash == <<>>                  \* b""

\* HMAC-SHA256 under key over prev || payload, as an ideal MAC: two digests
\* are equal exactly when key, previous hash and payload are equal
AuditHMAC(key, prev, payload) == <<key, prev, payload>>

\* bytes.hex() and bytes.fromhex()
Hex(bytes) == <<"hex", bytes>>
FromHex(str) == str[2]

\* h.hexdigest() after update(prev) and update(event_json)
Signature(key, prev, payload) == Hex(AuditHMAC(key, prev, payload))

\* the signed log entry log() writes as one line
Entry(event, signature, prev) ==
    [event |-> event, hmac |-> signature, prev_hash |-> Hex(prev)]

\* bug variant: log() does not advance the chain
NextLastHashKept(signature) == last_hash

\* log(): self._last_hash = bytes.fromhex(signature)
NextLastHash(signature) == FromHex(signature)

\* _maybe_rotate(): the file exists and st_size >= self._max_size
NeedsRotate == log_file # <<>> /\ Len(log_file) >= max_size

\* _rotate(): the oldest rotated file is removed, the others shift by one
\* and the current file becomes .jsonl.1
RotatedAfter ==
    IF NeedsRotate
    THEN SubSeq(<<log_file>> \o rotated, 1,
                IF Len(rotated) + 1 > rotate_count THEN rotate_count ELSE Len(rotated) + 1)
    ELSE rotated

\* the file log() appends to
FileAfterRotate == IF NeedsRotate THEN <<>> ELSE log_file

\* bug variant: verification takes the stored signature for the computed one
ComputedSigTrusting(key, prev, entry) == entry.hmac

\* verify_audit_log(): the signature recomputed for an entry
ComputedSig(key, prev, entry) == Signature(key, prev, entry.event)

\* verify_audit_log(): the errors found from line line_num on, as pairs
\* <<line, kind>>, kind "chain" for "Hash chain broken" and "hmac" for
\* "Invalid HMAC signature"
RECURSIVE VerifyErrors(_, _, _, _)
VerifyErrors(key, file, line_num, prev) ==
    IF line_num > Len(file) THEN {}
    ELSE LET entry == file[line_num]
             chain == IF Hex(prev) # entry.prev_hash
                      THEN {<<line_num, "chain">>} ELSE {}
             sig == IF ComputedSig(key, prev, entry) # entry.hmac
                    THEN {<<line_num, "hmac">>} ELSE {}
         IN chain \cup sig \cup VerifyErrors(key, file, line_num + 1, FromHex(entry.hmac))

\* verify_audit_log(log_path, hmac_key) for the file at log_path
verify_audit_log(file, key) ==
    [valid |-> VerifyErrors(key, file, 1, EmptyHash) = {},
     errors |-> VerifyErrors(key, file, 1, EmptyHash)]

\* what is handed to the verifier: the current file as it is, one of the
\* rotated files, or the current file after one edit
Target(kind, i, j, event) == [kind |-> kind, i |-> i, j |-> j, event |-> event]

NoVerify == [target |-> Target("none", 0, 0, "none"), valid |-> TRUE, errors |-> {}]

Targets ==
    {Target("intact", 0, 0, "none")}
    \cup {Target("segment", i, 0, "none") : i \in 1..Len(rotated)}
    \cup {t \in {Target("edit", i, 0, e) : i \in 1..Len(log_file),
                                           e \in AuditEvents \cup {"forged"}} :
             t.event # log_file[t.i].event}
    \cup {Target("delete", i, 0, "none") : i \in 1..Len(log_file)}
    \cup {t \in {Target("swap", i, j, "none") : i \in 1..Len(log_file),
                                                j \in 1..Len(log_file)} : t.i < t.j}

\* the file the verifier reads for a target
Examined(t) ==
    CASE t.kind = "segment" -> rotated[t.i]
      [] t.kind = "edit" -> [log_file EXCEPT ![t.i].event = t.event]
      [] t.kind = "delete" ->
            SubSeq(log_file, 1, t.i - 1) \o SubSeq(log_file, t.i + 1, Len(log_file))
      [] t.kind = "swap" ->
            [log_file EXCEPT ![t.i] = log_file[t.j], ![t.j] = log_file[t.i]]
      [] OTHER -> log_file

\* -------------------------------------------- AuditLogger.log, by statement
NumCallers == 2        \* threads that call log() on one AuditLogger

NoEntry == Entry("none", Hex(EmptyHash), EmptyHash)
\* what is left in the file by a write that failed part way: the line is
\* not a record, and the next write starts where it stopped
Torn == Entry("torn", Hex(<<"torn">>), <<"torn">>)

\* bug variant: the chain is advanced before the write is known to succeed
FailedLastHashAdvanced(signature) == FromHex(signature)

\* log(): self._last_hash when open() or write() raised OSError, the
\* assignment after the with block not reached
FailedLastHash(signature) == last_hash

\* the complete records of a file
RECURSIVE Complete(_)
Complete(file) ==
    IF file = <<>> THEN <<>>
    ELSE IF Head(file) = Torn THEN Complete(Tail(file))
    ELSE <<Head(file)>> \o Complete(Tail(file))

\* the complete records in the order written: .jsonl.n first, the current
\* file last
RECURSIVE Written(_)
Written(n) ==
    IF n = 0 THEN Complete(log_file) ELSE Complete(rotated[n]) \o Written(n - 1)

\* ------------------------------------------------------------ RateLimiter
requests_per_minute == 2
denial_threshold == 2
denial_backoff_base == 20
denial_backoff_max == 50
WindowSeconds == 60
FloatMaxExp == 1024    \* 2 ** k converts to float only for k < 1024

TickStep == 15         \* seconds between two readings of the clock
MaxTicks == 4
MaxRateOps == 3        \* record_* calls followed

Identities == {1, 2}               \* Telegram user ids
NoTime == -1                       \* Python None for a datetime

UserRateState(request_times, denial_count, last_denial, backoff_until) ==
    [request_times |-> request_times, denial_count |-> denial_count,
     last_denial |-> last_denial, backoff_until |-> backoff_until]

FreshState == UserRateState(<<>>, 0, NoTime, NoTime)

\* min(v * 2 ** k, denial_backoff_max), the doubling stopped at the ceiling
RECURSIVE Capped(_, _)
Capped(v, k) ==
    IF v >= denial_backoff_max THEN denial_backoff_max
    ELSE IF k = 0 THEN v
    ELSE Capped(2 * v, k - 1)

\* record_denial(): float * int raises OverflowError when the int 2 ** k has
\* no float value
Overflows(count) == count - denial_threshold >= FloatMaxExp

\* record_denial(): min(base * 2 ** (count - threshold), max)
Backoff(count) == Capped(denial_backoff_base, count - denial_threshold)

\* the count a record_denial() call that is lost leaves behind
DenialCountLost(state) == state.denial_count

\* record_denial(): state.denial_count += 1
DenialCount(state) == state.denial_count + 1

\* record_denial() on state at time t
DenialState(state, t) ==
    UserRateState(state.request_times, DenialCount(state), t,
                  IF DenialCount(state) >= denial_threshold /\ ~Overflows(DenialCount(state))
                  THEN t + Backoff(DenialCount(state))
                  ELSE state.backoff_until)

\* bug variant: an approval resets the count and leaves the backoff running
ApprovalStateKeepsBackoff(state) ==
    UserRateState(state.request_times, 0, state.last_denial, state.backoff_until)

\* record_approval() on state
ApprovalState(state) ==
    UserRateState(state.request_times, 0, state.last_denial, NoTime)

\* record_request() on state at time t
RequestState(state, t) ==
    UserRateState(Append(state.request_times, t), state.denial_count,
                  state.last_denial, state.backoff_until)

\* check_rate_limit(): the request times newer than the cutoff
Pruned(times, t) == SelectSeq(times, LAMBDA x : x > t - WindowSeconds)

\* max(0.1, seconds), in tenths of a second
WaitTenths(seconds) == IF 10 * seconds > 1 THEN 10 * seconds ELSE 1

\* what a RateLimiter call returned: wait is in tenths of a second, 0 for None
Returned(op, user, allowed, wait, raised) ==
    [op |-> op, user |-> user, allowed |-> allowed, wait |-> wait, raised |-> raised]

NoCall == Returned("none", 0, TRUE, 0, FALSE)

\* bug variant: the sliding window is never full
RateLimitedNever(times) == FALSE

\* check_rate_limit(): len(state.request_times) >= self._requests_per_minute
RateLimited(times) == Len(times) >= requests_per_minute

\* check_rate_limit() on state at time t
CheckResult(user, state, t) ==
    LET denial_blocked == state.backoff_until # NoTime /\ state.backoff_until > t
        times == Pruned(state.request_times, t)
        rate_wait == IF RateLimited(times) /\ times # <<>>
                     THEN WindowSeconds - (t - times[1]) ELSE 0
    IN IF denial_blocked
       THEN Returned("check_rate_limit", user, FALSE, WaitTenths(state.backoff_until - t), FALSE)
       ELSE IF RateLimited(times)
       THEN Returned("check_rate_limit", user, FALSE, WaitTenths(rate_wait), FALSE)
       ELSE Returned("check_rate_limit", user, TRUE, 0, FALSE)

\* ------------------------------------------------------------------ Deck
\* bug variant: a failed notification always denies
DefaultAnswerDeny == "n"

\* the answer injected for the configured default action
DefaultAnswer == IF default_action = "approve" THEN "y" ELSE "n"

\* bug variant: the answer contradicts the response
AnswerForInverted(resp) == IF resp.approved THEN "n" ELSE "y"

\* the answer injected for a queue response
AnswerFor(resp) == IF resp.approved THEN "y" ELSE "n"

\* the queue and the orchestrator after construction
LifecycleInit ==
    /\ default_action \in {"approve", "deny"}
    /\ running = TRUE
    /\ pending = [id \in Ids |-> None]
    /\ response_futures = [id \in Ids |-> None]
    /\ fut_state = [p \in Prompts |-> "nofuture"]
    /\ fut_result = [p \in Prompts |-> NoResponse]
    /\ timeout_task = [p \in Prompts |-> "notask"]
    /\ pc = [p \in Prompts |-> "idle"]
    /\ notified = [p \in Prompts |-> FALSE]
    /\ injected = [p \in Prompts |-> <<>>]
    /\ received = [p \in Prompts |-> NoResponse]
    /\ audit_log = <<>>
    /\ settled = [p \in Prompts |-> <<>>]
    /\ accepted = [p \in Prompts |-> NoResponse]
    /\ respond_true = [id \in Ids |-> 0]
    /\ last_cancel = NoCancel

\* SecurityConfig() defaults, no signer installed, no callback handled
BotIdle ==
    /\ authorized_users = {}
    /\ allow_anonymous = FALSE
    /\ signer = NoSigner
    /\ reply = NoReply

\* PolicyEngine([]) before any evaluation
PolicyIdle ==
    /\ policy_config = <<>>
    /\ policies = <<>>
    /\ evaluation_count = 0
    /\ policy_result = NoResult

\* a fresh AuditLogger on a path with no file, as large as never to rotate
AuditIdle ==
    /\ log_file = <<>>
    /\ rotated = <<>>
    /\ max_size = MaxEvents + 1
    /\ last_hash = EmptyHash
    /\ event_count = 0
    /\ verify_result = NoVerify

\* no log() call begun, one caller
StepIdle ==
    /\ log_pc = <<"idle">>
    /\ log_entry = <<NoEntry>>
    /\ log_calls = 0

\* RateLimiter() before any call
RateIdle ==
    /\ user_states = [u \in Identities |-> FreshState]
    /\ now = 0
    /\ rate_result = NoCall
    /\ rate_ops = 0

\* a CallbackSigner that has signed and verified nothing
SignIdle ==
    /\ sig_clock = SignEpoch
    /\ sig_input = <<>>
    /\ sig_token = <<>>
    /\ sig_data = <<>>
    /\ sig_out = NoOutput

\* OfflineQueue() before any call
OfflineIdle ==
    /\ offline_queue = <<>>
    /\ offline_clock = 0
    /\ offline_result = NoQueueCall
    /\ enqueued = 0

\* a fresh ReconnectionManager() on which nothing was called
ReconnectIdle ==
    /\ manager = Manager(0)
    /\ loops = <<>>

\* no flush() begun, the lock free
FlushIdle ==
    /\ lock = FreeLock
    /\ flushing = NoFlush

ExtraIdle == ReconnectIdle /\ FlushIdle

SideIdle == StepIdle /\ RateIdle /\ SignIdle /\ OfflineIdle /\ ExtraIdle

Init ==
    /\ LifecycleInit
    /\ BotIdle
    /\ PolicyIdle
    /\ AuditIdle
    /\ SideIdle

\* _handle_permission, policy fast path: the policy engine auto-approves and
\* "y" is injected at once
AutoApprove(p) ==
    /\ pc[p] = "idle"
    /\ pc' = [pc EXCEPT ![p] = "auto"]
    /\ injected' = [injected EXCEPT ![p] = Append(@, "y")]
    /\ UNCHANGED <<default_action, running, queueVars, notified, received, audit_log, histKeep>>
    /\ last_cancel' = NoCancel
    /\ UNCHANGED compVars

\* _handle_permission, manual path: the request is created and the task
\* suspends in bot.send_permission_request
StartSend(p) ==
    /\ pc[p] = "idle"
    /\ pc' = [pc EXCEPT ![p] = "send"]
    /\ UNCHANGED <<default_action, running, queueVars, notified, injected, received,
                   audit_log, histKeep>>
    /\ last_cancel' = NoCancel
    /\ UNCHANGED compVars

\* the transport delivers the message with the approve / deny buttons
NotifyDelivered(p) ==
    /\ pc[p] = "send"
    /\ ~notified[p]
    /\ notified' = [notified EXCEPT ![p] = TRUE]
    /\ UNCHANGED <<default_action, running, queueVars, pc, injected, received,
                   audit_log, histKeep>>
    /\ last_cancel' = NoCancel
    /\ UNCHANGED compVars

\* send_permission_request raises (before or after the message got through):
\* the default action is injected and the task ends without calling add()
SendFail(p) ==
    /\ pc[p] = "send"
    /\ pc' = [pc EXCEPT ![p] = "failed"]
    /\ injected' = [injected EXCEPT ![p] = Append(@, DefaultAnswer)]
    /\ UNCHANGED <<default_action, running, queueVars, notified, received, audit_log, histKeep>>
    /\ last_cancel' = NoCancel
    /\ UNCHANGED compVars

\* send_permission_request returns; add() registers the request, creates
\* its future and its timeout task and suspends on the future
Add(p) ==
    /\ pc[p] = "send"
    /\ notified[p]
    /\ pc' = [pc EXCEPT ![p] = "wait"]
    /\ pending' = [pending EXCEPT ![RequestId(p)] = p]
    /\ response_futures' = [response_futures EXCEPT ![RequestId(p)] = p]
    /\ fut_state' = [fut_state EXCEPT ![p] = "pending"]
    /\ timeout_task' = [timeout_task EXCEPT ![p] = "sleeping"]
    /\ UNCHANGED <<default_action, running, fut_result, notified, injected, received,
                   audit_log, histKeep>>
    /\ last_cancel' = NoCancel
    /\ UNCHANGED compVars

\* PermissionQueue.respond(response)
RespondCall(id, user, approved) ==
    /\ UNCHANGED <<default_action, running, pending, timeout_task, deckVars>>
    /\ last_cancel' = NoCancel
    /\ response_futures' =
          IF pending[id] # None THEN RespondFutures(id) ELSE response_futures
    /\ IF RespondAccepts(id)
       THEN /\ SetResult(response_futures[id], HumanResponse(id, user, approved), "respond")
            /\ respond_true' = [respond_true EXCEPT ![id] = @ + 1]
       ELSE /\ UNCHANGED <<fut_state, fut_result, settled, accepted, respond_true>>

\* SimstimBot._handle_permission_response -> PermissionQueue.respond()
Respond(id, user, approved) ==
    /\ RespondCall(id, user, approved)
    /\ UNCHANGED compVars

\* _timeout_handler wakes up from asyncio.sleep(timeout_seconds)
TimeoutFire(p) ==
    /\ timeout_task[p] = "sleeping"
    /\ timeout_task' = [timeout_task EXCEPT ![p] = "done"]
    /\ IF TimeoutResolves(RequestId(p))
       THEN SetResult(response_futures[RequestId(p)],
                      TimeoutResponse(RequestId(p)), "timeout")
       ELSE UNCHANGED <<fut_state, fut_result, settled, accepted>>
    /\ UNCHANGED <<default_action, running, pending, response_futures, deckVars,
                   respond_true>>
    /\ last_cancel' = NoCancel
    /\ UNCHANGED compVars

\* Deck._cleanup, run once when run() leaves its try block: _running = False
\* and PermissionQueue.cancel_all()
CancelAll ==
    /\ running
    /\ running' = FALSE
    /\ last_cancel' = <<TRUE, CancelCount>>
    /\ UNCHANGED compVars
    /\ LET hit == {response_futures[id] : id \in CancelTargets}
           idOf(f) == CHOOSE id \in CancelTargets : response_futures[id] = f
       IN /\ fut_state' = [f \in Prompts |-> IF f \in hit THEN "done" ELSE fut_state[f]]
          /\ fut_result' = [f \in Prompts |->
                IF f \in hit THEN CancelResponse(idOf(f)) ELSE fut_result[f]]
          /\ settled' = [f \in Prompts |->
                IF f \in hit THEN Append(settled[f], "cancelled") ELSE settled[f]]
          /\ accepted' = [f \in Prompts |->
                IF f \in hit /\ settled[f] = <<>>
                THEN CancelResponse(idOf(f)) ELSE accepted[f]]
    /\ UNCHANGED <<default_action, pending, response_futures, timeout_task,
                   deckVars, respond_true>>

\* add() resumes with the future's result, runs _cleanup in its finally
\* block and returns; _handle_permission injects the answer
AddReturn(p) ==
    /\ pc[p] = "wait"
    /\ fut_state[p] = "done"
    /\ pc' = [pc EXCEPT ![p] = "answered"]
    /\ received' = [received EXCEPT ![p] = fut_result[p]]
    /\ pending' = CleanupPending(RequestId(p))
    /\ timeout_task' = CleanupTimers(RequestId(p))
    /\ response_futures' = CleanupFutures(RequestId(p))
    /\ injected' = [injected EXCEPT ![p] = Append(@, AnswerFor(fut_result[p]))]
    /\ UNCHANGED <<default_action, running, fut_state, fut_result, notified, audit_log, histKeep>>
    /\ last_cancel' = NoCancel
    /\ UNCHANGED compVars

Next ==
    \/ \E p \in Prompts : AutoApprove(p)
    \/ \E p \in Prompts : StartSend(p)
    \/ \E p \in Prompts : NotifyDelivered(p)
    \/ \E p \in Prompts : SendFail(p)
    \/ \E p \in Prompts : Add(p)
    \/ \E id \in Ids, u \in Users, a \in BOOLEAN : Respond(id, u, a)
    \/ \E p \in Prompts : TimeoutFire(p)
    \/ CancelAll
    \/ \E p \in Prompts : AddReturn(p)

Spec == Init /\ [][Next]_vars

\* a step the event loop owes: a due timer or a coroutine whose future is done
LoopStep == \E p \in Prompts : TimeoutFire(p) \/ AddReturn(p)

\* the event loop keeps running while it has a due timer or a ready callback
FairSpec == Spec /\ WF_vars(LoopStep)

\* ------------------------------------------ PermissionQueue, one id twice
\* PermissionRequest.id is the first 8 hex digits of a uuid4 or whatever the
\* caller passes: here every request carries the same id
CollidingId(p) == 1

\* add() for a request whose id may already be registered: the table entries
\* under that id are overwritten
AddCollide(p) ==
    /\ pc[p] = "send"
    /\ notified[p]
    /\ pc' = [pc EXCEPT ![p] = "wait"]
    /\ pending' = [pending EXCEPT ![CollidingId(p)] = p]
    /\ response_futures' = [response_futures EXCEPT ![CollidingId(p)] = p]
    /\ fut_state' = [fut_state EXCEPT ![p] = "pending"]
    /\ timeout_task' = [timeout_task EXCEPT ![p] = "sleeping"]
    /\ UNCHANGED <<default_action, running, fut_result, notified, injected, received,
                   audit_log, histKeep>>
    /\ last_cancel' = NoCancel
    /\ UNCHANGED compVars

\* _timeout_handler(request_id) of request p wakes up and looks its id up
TimeoutFireCollide(p) ==
    /\ timeout_task[p] = "sleeping"
    /\ timeout_task' = [timeout_task EXCEPT ![p] = "done"]
    /\ IF TimeoutResolves(CollidingId(p))
       THEN SetResult(response_futures[CollidingId(p)],
                      TimeoutResponse(CollidingId(p)), "timeout")
       ELSE UNCHANGED <<fut_state, fut_result, settled, accepted>>
    /\ UNCHANGED <<default_action, running, pending, response_futures, deckVars,
                   respond_true>>
    /\ last_cancel' = NoCancel
    /\ UNCHANGED compVars

\* add() of request p resumes with the result of its own future and runs
\* _cleanup(request.id), which pops whatever is registered under the id
AddReturnCollide(p) ==
    /\ pc[p] = "wait"
    /\ fut_state[p] = "done"
    /\ pc' = [pc EXCEPT ![p] = "answered"]
    /\ received' = [received EXCEPT ![p] = fut_result[p]]
    /\ pending' = CleanupPending(CollidingId(p))
    /\ timeout_task' = CleanupTimers(CollidingId(p))
    /\ response_futures' = CleanupFutures(CollidingId(p))
    /\ injected' = [injected EXCEPT ![p] = Append(@, AnswerFor(fut_result[p]))]
    /\ UNCHANGED <<default_action, running, fut_state, fut_result, notified, audit_log, histKeep>>
    /\ last_cancel' = NoCancel
    /\ UNCHANGED compVars

NextCollide ==
    \/ \E p \in Prompts : AutoApprove(p)
    \/ \E p \in Prompts : StartSend(p)
    \/ \E p \in Prompts : NotifyDelivered(p)
    \/ \E p \in Prompts : SendFail(p)
    \/ \E p \in Prompts : AddCollide(p)
    \/ \E id \in Ids, u \in Users, a \in BOOLEAN : Respond(id, u, a)
    \/ \E p \in Prompts : TimeoutFireCollide(p)
    \/ CancelAll
    \/ \E p \in Prompts : AddReturnCollide(p)

SpecCollide == Init /\ [][NextCollide]_vars

LoopStepCollide == \E p \in Prompts : TimeoutFireCollide(p) \/ AddReturnCollide(p)

FairCollide == SpecCollide /\ WF_vars(LoopStepCollide)

\* ------------------------------------- PermissionQueue, add() is cancelled
\* the task suspended in add() is cancelled: CancelledError is raised at
\* "await future", which cancels a future not yet done, the finally block
\* runs _cleanup(request.id), and _handle_permission ends without an answer
CancelAdd(p) ==
    /\ pc[p] = "wait"
    /\ pc' = [pc EXCEPT ![p] = "cancelled"]
    /\ fut_state' = [fut_state EXCEPT ![p] = IF @ = "pending" THEN "cancelled" ELSE @]
    /\ pending' = CleanupPending(RequestId(p))
    /\ timeout_task' = CleanupTimers(RequestId(p))
    /\ response_futures' = CleanupFutures(RequestId(p))
    /\ UNCHANGED <<default_action, running, fut_result, notified, injected, received,
                   audit_log, histKeep>>
    /\ last_cancel' = NoCancel
    /\ UNCHANGED compVars

NextCancel ==
    \/ Next
    \/ \E p \in Prompts : CancelAdd(p)

SpecCancel == Init /\ [][NextCancel]_vars

\* -------------------------------------------------- SimstimBot callbacks
\* SimstimBot._handle_callback for a callback query from user carrying data d,
\* with _handle_permission_response and PermissionQueue.respond
HandleCallback(user, d) ==
    LET out == HandlerOutcome(user, d)
        pl == ParsedPayload(d)
        id == QueueId(pl.request_id)
        signed_ok == Verify(BridgeKey, d)
        id_ok == validate_callback_request_id(pl.request_id)
    IN /\ UNCHANGED <<authorized_users, allow_anonymous, signer, policyVars, auditVars,
                       sideVars>>
       /\ IF out = "respond"
          THEN /\ RespondCall(id, user, pl.action = "approve")
               /\ reply' = Reply(IF RespondAccepts(id) THEN "confirmed" ELSE "expired",
                                 user, signed_ok, id_ok)
          ELSE /\ UNCHANGED <<default_action, running, queueVars, deckVars, histKeep>>
               /\ last_cancel' = NoCancel
               /\ reply' = Reply(out, user, signed_ok, id_ok)

\* where a request may stand when a callback arrives: not yet registered,
\* waiting in add(), or resolved by its timer with add() not yet resumed
SlotStates == {"absent", "open", "resolved"}

\* the bridge at the moment callbacks arrive: some security configuration,
\* signer installed or not, and every request at some point of its lifecycle
InitBot ==
    /\ default_action \in {"approve", "deny"}
    /\ running = TRUE
    /\ \E st \in [Prompts -> SlotStates] :
          /\ pending = [id \in Ids |->
                IF id \in Prompts /\ st[id] # "absent" THEN id ELSE None]
          /\ response_futures = [id \in Ids |->
                IF id \in Prompts /\ st[id] # "absent" THEN id ELSE None]
          /\ fut_state = [p \in Prompts |->
                IF st[p] = "absent" THEN "nofuture"
                ELSE IF st[p] = "open" THEN "pending" ELSE "done"]
          /\ fut_result = [p \in Prompts |->
                IF st[p] = "resolved" THEN TimeoutResponse(RequestId(p)) ELSE NoResponse]
          /\ timeout_task = [p \in Prompts |->
                IF st[p] = "absent" THEN "notask"
                ELSE IF st[p] = "open" THEN "sleeping" ELSE "done"]
          /\ pc = [p \in Prompts |-> IF st[p] = "absent" THEN "idle" ELSE "wait"]
          /\ notified = [p \in Prompts |-> st[p] # "absent"]
          /\ settled = [p \in Prompts |->
                IF st[p] = "resolved" THEN <<"timeout">> ELSE <<>>]
          /\ accepted = [p \in Prompts |->
                IF st[p] = "resolved" THEN TimeoutResponse(RequestId(p)) ELSE NoResponse]
    /\ injected = [p \in Prompts |-> <<>>]
    /\ received = [p \in Prompts |-> NoResponse]
    /\ audit_log = <<>>
    /\ respond_true = [id \in Ids |-> 0]
    /\ last_cancel = NoCancel
    /\ authorized_users \in SUBSET Users
    /\ allow_anonymous \in BOOLEAN
    /\ signer \in {NoSigner, BridgeKey}
    /\ reply = NoReply
    /\ PolicyIdle
    /\ AuditIdle
    /\ SideIdle

\* one callback query is followed through the handler from each such moment
NextBot ==
    /\ reply = NoReply
    /\ \E user \in Senders, d \in CallbackData : HandleCallback(user, d)

SpecBot == InitBot /\ [][NextBot]_vars

\* ---------------------------------------------------------- PolicyEngine
PolicyActions == {"file_edit", "bash_execute"}
PolicyPatterns == {<<"*">>, <<"{", "a", ",", "b", "}">>}
PolicyTargets == {<<"a">>, <<"c">>}
\* max_risk as a policy may carry it, a level outside RISK_ORDER included
PolicyCeilings == {"low", "HIGH", "bogus"}
\* the risk of a request, a level outside RISK_ORDER included
RequestRisks == {"low", "high", "unknown"}
\* every level name _risk_acceptable is applied to
RiskNames == {"low", "medium", "high", "critical", "HIGH", "bogus", "unknown"}

\* the policies the list may hold at position i: every enabled combination,
\* and a disabled catch-all for each action
PolicyPool(i) ==
    {Policy(i, TRUE, a, pat, mr) :
        a \in PolicyActions, pat \in PolicyPatterns, mr \in PolicyCeilings}
    \cup {Policy(i, FALSE, a, <<"*">>, "critical") : a \in PolicyActions}

\* PolicyEngine(config.policies) for some configured list
InitPolicy ==
    /\ LifecycleInit
    /\ BotIdle
    /\ policy_config \in {c \in [1..NumPolicies -> UNION {PolicyPool(i) : i \in 1..NumPolicies}] :
                            \A i \in 1..NumPolicies : c[i] \in PolicyPool(i)}
    /\ policies = Enabled(policy_config)
    /\ evaluation_count = 0
    /\ policy_result = NoResult
    /\ AuditIdle
    /\ SideIdle

\* PolicyEngine.evaluate(action, target, risk)
Evaluate(action, target, risk) ==
    /\ evaluation_count < MaxEvaluations
    /\ evaluation_count' = evaluation_count + 1
    /\ policy_result' = EvaluateFrom(1, action, target, risk, evaluation_count + 1)
    /\ UNCHANGED <<policy_config, policies, lifeVars, botVars, auditVars, sideVars>>

NextPolicy ==
    \E action \in PolicyActions, target \in PolicyTargets, risk \in RequestRisks :
        Evaluate(action, target, risk)

SpecPolicy == InitPolicy /\ [][NextPolicy]_vars

\* ------------------------------------------------- PolicyEngine, path patterns
\* the patterns and targets of tests/test_policies.py, character by character
\* "src/*.ts"
SrcStarTs ==
    <<"s", "r", "c", "/", "*", ".", "t", "s">>
\* "src/**/*.ts"
SrcDeepTs ==
    <<"s", "r", "c", "/", "*", "*", "/", "*", ".", "t", "s">>
\* "*.{ts,js}"
AnyTsOrJs ==
    <<"*", ".", "{", "t", "s", ",", "j", "s", "}">>
\* "*.ts"
AnyTs ==
    <<"*", ".", "t", "s">>
\* "*.js"
AnyJs ==
    <<"*", ".", "j", "s">>
\* "src/index.ts"
SrcIndexTs ==
    <<"s", "r", "c", "/", "i", "n", "d", "e", "x", ".", "t", "s">>
\* "src/components/Button.ts"
SrcNestedTs ==
    <<"s", "r", "c", "/", "c", "o", "m", "p", "o", "n", "e", "n", "t", "s", "/", "B", "u", "t", "t", "o", "n", ".", "t", "s">>
\* "index.ts"
IndexTs ==
    <<"i", "n", "d", "e", "x", ".", "t", "s">>
\* "app.js"
AppJs ==
    <<"a", "p", "p", ".", "j", "s">>
\* "README.md"
ReadmeMd ==
    <<"R", "E", "A", "D", "M", "E", ".", "m", "d">>

\* "Component.tsx"
ComponentTsx ==
    <<"C", "o", "m", "p", "o", "n", "e", "n", "t", ".", "t", "s", "x">>

GlobPatterns == {SrcStarTs, SrcDeepTs, AnyTsOrJs, AnyTs, AnyJs}
GlobTargets == {SrcIndexTs, SrcNestedTs, IndexTs, AppJs, ReadmeMd, ComponentTsx}

\* PolicyEngine([policy]) for one enabled file_edit policy with max_risk medium
InitGlob ==
    /\ LifecycleInit
    /\ BotIdle
    /\ policy_config \in {<<Policy(1, TRUE, "file_edit", pattern, "medium")>> : pattern \in GlobPatterns}
    /\ policies = Enabled(policy_config)
    /\ evaluation_count = 0
    /\ policy_result = NoResult
    /\ AuditIdle
    /\ SideIdle

\* engine.evaluate(action=ActionType.FILE_EDIT, target=target, risk=RiskLevel.LOW)
NextGlob == \E target \in GlobTargets : Evaluate("file_edit", target, "low")

SpecGlob == InitGlob /\ [][NextGlob]_vars

\* ----------------------------------------------------------- AuditLogger
\* AuditLogger(log_path, hmac_key=AuditKey) on a path with no file
InitAudit ==
    /\ LifecycleInit
    /\ BotIdle
    /\ PolicyIdle
    /\ log_file = <<>>
    /\ rotated = <<>>
    /\ max_size \in {MaxEvents - 1, MaxEvents + 1}
    /\ last_hash = EmptyHash
    /\ event_count = 0
    /\ verify_result = NoVerify
    /\ SideIdle

\* AuditLogger.log(event), the write succeeding
Log(event) ==
    /\ event_count < MaxEvents
    /\ LET signature == Signature(AuditKey, last_hash, event)
       IN /\ log_file' = Append(FileAfterRotate, Entry(event, signature, last_hash))
          /\ last_hash' = NextLastHash(signature)
    /\ rotated' = RotatedAfter
    /\ event_count' = event_count + 1
    /\ verify_result' = NoVerify
    /\ UNCHANGED <<max_size, lifeVars, botVars, policyVars, sideVars>>

\* verify_audit_log(path, AuditKey) on the target t
VerifyLog(t) ==
    /\ verify_result' = [target |-> t,
                         valid |-> verify_audit_log(Examined(t), AuditKey).valid,
                         errors |-> verify_audit_log(Examined(t), AuditKey).errors]
    /\ UNCHANGED <<log_file, rotated, max_size, last_hash, event_count,
                   lifeVars, botVars, policyVars, sideVars>>

NextAudit ==
    \/ \E event \in AuditEvents : Log(event)
    \/ \E t \in Targets : VerifyLog(t)

SpecAudit == InitAudit /\ [][NextAudit]_vars

\* the process ends and a new one runs AuditLogger(log_path, hmac_key=AuditKey)
\* on the file the old one left, once: __init__ never opens the file
Restart ==
    /\ rotated = <<>>
    /\ 0 < event_count
    /\ event_count = Len(log_file)
    /\ last_hash' = EmptyHash
    /\ event_count' = 0
    /\ verify_result' = NoVerify
    /\ UNCHANGED <<log_file, rotated, max_size, lifeVars, botVars, policyVars, sideVars>>

NextRestart ==
    \/ NextAudit
    \/ Restart

SpecRestart == InitAudit /\ [][NextRestart]_vars

\* -------------------------------------------- AuditLogger.log, by statement
\* one AuditLogger shared by one caller or by several threads
InitLogSteps ==
    /\ LifecycleInit
    /\ BotIdle
    /\ PolicyIdle
    /\ log_file = <<>>
    /\ rotated = <<>>
    /\ max_size \in {MaxEvents - 1, MaxEvents + 1}
    /\ last_hash = EmptyHash
    /\ event_count = 0
    /\ verify_result = NoVerify
    /\ log_pc \in {[t \in 1..n |-> "idle"] : n \in 1..NumCallers}
    /\ log_entry = [t \in DOMAIN log_pc |-> NoEntry]
    /\ log_calls = 0
    /\ RateIdle
    /\ SignIdle
    /\ OfflineIdle
    /\ ExtraIdle

stepFrame ==
    <<max_size, verify_result, lifeVars, botVars, policyVars, rateVars, signVars, offlineVars, extraVars>>

\* log() up to the log_entry dict: _maybe_rotate(), then the signature and
\* the prev_hash field, both read from self._last_hash
LogSign(t, event) ==
    /\ log_pc[t] = "idle"
    /\ log_calls < MaxEvents
    /\ log_file' = FileAfterRotate
    /\ rotated' = RotatedAfter
    /\ log_entry' = [log_entry EXCEPT
                        ![t] = Entry(event, Signature(AuditKey, last_hash, event), last_hash)]
    /\ log_pc' = [log_pc EXCEPT ![t] = "signed"]
    /\ log_calls' = log_calls + 1
    /\ UNCHANGED <<last_hash, event_count, stepFrame>>

\* log(): the with block, the line appended to the file
LogWrite(t) ==
    /\ log_pc[t] = "signed"
    /\ log_file' = Append(log_file, log_entry[t])
    /\ log_pc' = [log_pc EXCEPT ![t] = "written"]
    /\ UNCHANGED <<rotated, last_hash, event_count, log_entry, log_calls, stepFrame>>

\* log(): the two assignments after the with block
LogCommit(t) ==
    /\ log_pc[t] = "written"
    /\ last_hash' = NextLastHash(log_entry[t].hmac)
    /\ event_count' = event_count + 1
    /\ log_pc' = [log_pc EXCEPT ![t] = "idle"]
    /\ log_entry' = [log_entry EXCEPT ![t] = NoEntry]
    /\ UNCHANGED <<log_file, rotated, log_calls, stepFrame>>

\* log(): open() or write() raises OSError, which the except clause logs;
\* torn says whether part of the line had reached the file
LogFail(t, torn) ==
    /\ log_pc[t] = "signed"
    /\ log_file' = IF torn THEN Append(log_file, Torn) ELSE log_file
    /\ last_hash' = FailedLastHash(log_entry[t].hmac)
    /\ log_pc' = [log_pc EXCEPT ![t] = "idle"]
    /\ log_entry' = [log_entry EXCEPT ![t] = NoEntry]
    /\ UNCHANGED <<rotated, event_count, log_calls, stepFrame>>

NextLogSteps ==
    \E t \in DOMAIN log_pc :
        \/ \E event \in AuditEvents : LogSign(t, event)
        \/ LogWrite(t)
        \/ LogCommit(t)
        \/ \E torn \in BOOLEAN : LogFail(t, torn)

SpecLogSteps == InitLogSteps /\ [][NextLogSteps]_vars

\* ------------------------------------------------------------ RateLimiter
rateFrame == <<lifeVars, botVars, policyVars, auditVars, stepVars, signVars, offlineVars, extraVars>>

\* RateLimiter(), or one on which identity 1 has been denied over and over
\* at time 0 and never approved
InitRate ==
    /\ LifecycleInit
    /\ BotIdle
    /\ PolicyIdle
    /\ AuditIdle
    /\ StepIdle
    /\ SignIdle
    /\ OfflineIdle
    /\ ExtraIdle
    /\ \E streak \in {0, FloatMaxExp + denial_threshold - 1} :
          user_states = [u \in Identities |->
                            IF u = 1 /\ streak > 0
                            THEN UserRateState(<<>>, streak, 0, Backoff(streak))
                            ELSE FreshState]
    /\ now = 0
    /\ rate_result = NoCall
    /\ rate_ops = 0

\* time passes between two calls
Tick ==
    /\ now + TickStep <= MaxTicks * TickStep
    /\ now' = now + TickStep
    /\ rate_result' = NoCall
    /\ UNCHANGED <<user_states, rate_ops, rateFrame>>

\* check_rate_limit(user_id): the list is pruned in place
check_rate_limit(u) ==
    /\ user_states' = [user_states EXCEPT
                          ![u].request_times = Pruned(user_states[u].request_times, now)]
    /\ rate_result' = CheckResult(u, user_states[u], now)
    /\ UNCHANGED <<now, rate_ops, rateFrame>>

\* record_request(user_id)
record_request(u) ==
    /\ rate_ops < MaxRateOps
    /\ user_states' = [user_states EXCEPT ![u] = RequestState(user_states[u], now)]
    /\ rate_result' = Returned("record_request", u, TRUE, 0, FALSE)
    /\ rate_ops' = rate_ops + 1
    /\ UNCHANGED <<now, rateFrame>>

\* record_denial(user_id)
record_denial(u) ==
    /\ rate_ops < MaxRateOps
    /\ user_states' = [user_states EXCEPT ![u] = DenialState(user_states[u], now)]
    /\ rate_result' = Returned("record_denial", u, TRUE, 0,
                               /\ DenialCount(user_states[u]) >= denial_threshold
                               /\ Overflows(DenialCount(user_states[u])))
    /\ rate_ops' = rate_ops + 1
    /\ UNCHANGED <<now, rateFrame>>

\* record_approval(user_id)
record_approval(u) ==
    /\ rate_ops < MaxRateOps
    /\ user_states' = [user_states EXCEPT ![u] = ApprovalState(user_states[u])]
    /\ rate_result' = Returned("record_approval", u, TRUE, 0, FALSE)
    /\ rate_ops' = rate_ops + 1
    /\ UNCHANGED <<now, rateFrame>>

NextRate ==
    \/ Tick
    \/ \E u \in Identities :
          \/ check_rate_limit(u)
          \/ record_request(u)
          \/ record_denial(u)
          \/ record_approval(u)

SpecRate == InitRate /\ [][NextRate]_vars

\* --------------------------------------------------------- CallbackSigner
signFrame == <<lifeVars, botVars, policyVars, auditVars, stepVars, rateVars, offlineVars, extraVars>>

\* CallbackSigner(BridgeKey)
InitSign ==
    /\ LifecycleInit
    /\ BotIdle
    /\ PolicyIdle
    /\ AuditIdle
    /\ StepIdle
    /\ RateIdle
    /\ SignIdle
    /\ OfflineIdle
    /\ ExtraIdle

\* the clock readings followed: around the two ends of the max-age window
SignTimes ==
    {SignEpoch, SignEpoch + 1, SignEpoch + CALLBACK_MAX_AGE_SECONDS,
     SignEpoch + CALLBACK_MAX_AGE_SECONDS + 1}

\* time passes
TickSign(t) ==
    /\ t > sig_clock
    /\ sig_clock' = t
    /\ sig_data' = <<>>
    /\ sig_out' = NoOutput
    /\ UNCHANGED <<sig_input, sig_token, signFrame>>

\* signer.sign(payload)
SignPayload(payload) ==
    /\ sig_input' = payload
    /\ sig_token' = sign(BridgeKey, payload, sig_clock)
    /\ sig_data' = <<>>
    /\ sig_out' = NoOutput
    /\ UNCHANGED <<sig_clock, signFrame>>

\* signer.verify(data)
VerifyData(data) ==
    /\ sig_data' = data
    /\ sig_out' = verify(BridgeKey, data, CALLBACK_MAX_AGE_SECONDS, sig_clock)
    /\ UNCHANGED <<sig_clock, sig_input, sig_token, signFrame>>

NextSign ==
    \/ \E t \in SignTimes : TickSign(t)
    \/ \E payload \in SignPayloads : SignPayload(payload)
    \/ /\ sig_token # <<>>
       /\ sig_data = <<>>
       /\ \E data \in {sig_token} \cup Mutations(sig_token) : VerifyData(data)

SpecSign == InitSign /\ [][NextSign]_vars

\* ----------------------------------------------------------- OfflineQueue
offlineFrame == <<lifeVars, botVars, policyVars, auditVars, stepVars, rateVars, signVars, extraVars>>

\* OfflineQueue(max_size=queue_max_size, max_age_seconds=max_age_seconds)
InitOffline ==
    /\ LifecycleInit
    /\ BotIdle
    /\ PolicyIdle
    /\ AuditIdle
    /\ StepIdle
    /\ RateIdle
    /\ SignIdle
    /\ OfflineIdle
    /\ ExtraIdle

TickOffline ==
    /\ offline_clock < MaxOfflineClock
    /\ offline_clock' = offline_clock + 1
    /\ offline_result' = NoQueueCall
    /\ UNCHANGED <<offline_queue, enqueued, offlineFrame>>

\* enqueue(QueuedEvent(event_type, priority=priority)), the event made now
enqueue(priority) ==
    /\ enqueued < MaxEnqueues
    /\ LET kept == PrunedQueue(offline_queue, offline_clock)
           full == Len(kept) >= queue_max_size
           event == QueuedEvent(enqueued + 1, priority, offline_clock)
       IN /\ offline_queue' = Append(IF full THEN Tail(kept) ELSE kept, event)
          /\ offline_result' = QueueCall("enqueue", IF full THEN Head(kept) ELSE NoEvent, <<>>, 1)
    /\ enqueued' = enqueued + 1
    /\ UNCHANGED <<offline_clock, offlineFrame>>

\* flush(handler), handler treating the i-th event it is given as outcome[i]
flush(outcome) ==
    LET kept == PrunedQueue(offline_queue, offline_clock)
        sorted_events == Sorted(kept)
        calls == [i \in 1..Len(sorted_events) |->
                     [event |-> sorted_events[i], outcome |-> outcome[i]]]
        remaining == SelectSeq(calls, LAMBDA c : Requeued(c.outcome))
    IN /\ DOMAIN outcome = 1..Len(kept)
       /\ offline_queue' = [i \in 1..Len(remaining) |-> remaining[i].event]
       /\ offline_result' =
             QueueCall("flush", NoEvent, calls,
                       Len(SelectSeq(calls, LAMBDA c : c.outcome = "true")))
       /\ UNCHANGED <<offline_clock, enqueued, offlineFrame>>

NextOffline ==
    \/ TickOffline
    \/ \E priority \in Priorities : enqueue(priority)
    \/ \E n \in 0..queue_max_size : \E outcome \in [1..n -> Outcomes] : flush(outcome)

SpecOffline == InitOffline /\ [][NextOffline]_vars

TypeOK ==
    /\ default_action \in {"approve", "deny"}
    /\ pending \in [Ids -> Prompts \cup {None}]
    /\ response_futures \in [Ids -> Prompts \cup {None}]
    /\ fut_state \in [Prompts -> {"nofuture", "pending", "done"}]
    /\ timeout_task \in [Prompts -> {"notask", "sleeping", "done", "cancelled"}]
    /\ pc \in [Prompts -> {"idle", "auto", "send", "failed", "wait", "answered"}]
    /\ notified \in [Prompts -> BOOLEAN]

\* ------------------------------------------------ OfflineQueue.flush, by await
flushFrame ==
    <<lifeVars, botVars, policyVars, auditVars, stepVars, rateVars, signVars, reconnectVars>>

\* OfflineQueue(), one flush(handler) call to come
InitFlushSteps ==
    /\ LifecycleInit
    /\ BotIdle
    /\ PolicyIdle
    /\ AuditIdle
    /\ SideIdle

\* enqueue(event) by a task while nobody holds the lock: it runs to its end
EnqueueNow(priority) ==
    /\ ~lock.locked
    /\ lock.waiters = <<>>
    /\ enqueue(priority)

\* enqueue(event) by another task while flush() holds the lock: it suspends
\* in "async with self._lock"
EnqueueWait(priority) ==
    /\ lock.locked
    /\ enqueued < MaxEnqueues
    /\ lock' = [lock EXCEPT !.waiters =
                   Append(@, Waiter("task", QueuedEvent(enqueued + 1, priority, offline_clock)))]
    /\ enqueued' = enqueued + 1
    /\ offline_result' = NoQueueCall
    /\ UNCHANGED <<offline_queue, offline_clock, flushing, flushFrame>>

\* flush(handler) up to its first await: the lock, the pruning, the sort and
\* the call of the handler for the first event; with nothing queued, return 0
FlushBegin ==
    /\ flushing.pc = "idle"
    /\ ~lock.locked
    /\ lock.waiters = <<>>
    /\ LET kept == PrunedQueue(offline_queue, offline_clock)
       IN /\ offline_queue' = kept
          /\ IF kept = <<>>
             THEN /\ flushing' = [NoFlush EXCEPT !.pc = "done"]
                  /\ UNCHANGED lock
             ELSE /\ flushing' = [NoFlush EXCEPT !.pc = "handler",
                                                 !.sorted_events = Sorted(kept),
                                                 !.i = 1]
                  /\ lock' = [lock EXCEPT !.locked = TRUE]
    /\ offline_result' = NoQueueCall
    /\ UNCHANGED <<offline_clock, enqueued, flushFrame>>

\* the handler returns True or False or raises: the event is counted or kept,
\* then the next event is handed over or flush() stores the remaining events,
\* leaves the lock and returns
HandlerReturn(outcome) ==
    /\ flushing.pc = "handler"
    /\ LET event == flushing.sorted_events[flushing.i]
           remaining == IF Requeued(outcome) THEN Append(flushing.remaining, event)
                        ELSE flushing.remaining
           processed == flushing.processed + (IF outcome = "true" THEN 1 ELSE 0)
           last == flushing.i = Len(flushing.sorted_events)
       IN /\ flushing' = [flushing EXCEPT !.remaining = remaining,
                                          !.processed = processed,
                                          !.i = IF last THEN @ ELSE @ + 1,
                                          !.pc = IF last THEN "done" ELSE "handler"]
          /\ offline_queue' = IF last THEN remaining ELSE offline_queue
          /\ lock' = IF last THEN [lock EXCEPT !.locked = FALSE] ELSE lock
    /\ offline_result' = NoQueueCall
    /\ UNCHANGED <<offline_clock, enqueued, flushFrame>>

\* the handler calls enqueue(event) on the queue being flushed: the call
\* suspends in "async with self._lock" and the handler with it
HandlerEnqueue(priority) ==
    /\ flushing.pc = "handler"
    /\ enqueued < MaxEnqueues
    /\ flushing' = [flushing EXCEPT !.pc = "blocked"]
    /\ lock' = [lock EXCEPT !.waiters =
                   Append(@, Waiter("handler", QueuedEvent(enqueued + 1, priority, offline_clock)))]
    /\ enqueued' = enqueued + 1
    /\ offline_result' = NoQueueCall
    /\ UNCHANGED <<offline_queue, offline_clock, flushFrame>>

\* the lock was released: the enqueue() that waited longest takes it, runs
\* and leaves it; a handler that waited goes on to its return
EnqueueResume ==
    /\ ~lock.locked
    /\ lock.waiters # <<>>
    /\ offline_queue' = Enqueued(offline_queue, Head(lock.waiters).event, offline_clock)
    /\ lock' = [lock EXCEPT !.waiters = Tail(@)]
    /\ flushing' = IF Head(lock.waiters).by = "handler"
                   THEN [flushing EXCEPT !.pc = "handler"] ELSE flushing
    /\ offline_result' = NoQueueCall
    /\ UNCHANGED <<offline_clock, enqueued, flushFrame>>

NextFlushSteps ==
    \/ TickOffline
    \/ \E priority \in Priorities : EnqueueNow(priority)
    \/ \E priority \in Priorities : EnqueueWait(priority)
    \/ FlushBegin
    \/ \E outcome \in Outcomes : HandlerReturn(outcome)
    \/ \E priority \in Priorities : HandlerEnqueue(priority)
    \/ EnqueueResume

SpecFlushSteps == InitFlushSteps /\ [][NextFlushSteps]_vars

\* a handler that is running comes to an end or to an await, and a task
\* whose lock is free is run by the event loop
FairFlushSteps ==
    /\ SpecFlushSteps
    /\ WF_vars(\E outcome \in Outcomes : HandlerReturn(outcome))
    /\ WF_vars(EnqueueResume)

\* ----------------------------------------------------- ReconnectionManager
reconnectFrame ==
    <<lifeVars, botVars, policyVars, auditVars, stepVars, rateVars, signVars, offlineVars, flushVars>>

\* ReconnectionManager(max_attempts=n), and the calls that will be made on it
InitReconnect ==
    /\ LifecycleInit
    /\ BotIdle
    /\ PolicyIdle
    /\ AuditIdle
    /\ StepIdle
    /\ RateIdle
    /\ SignIdle
    /\ OfflineIdle
    /\ FlushIdle
    /\ manager \in {Manager(n) : n \in {0, MaxAttempts}}
    /\ loops = [t \in Calls |-> NoLoop]

\* the top of "while True" for call t, whose record is l, on manager m: count
\* the attempt, then either give up (await on_failure(None)) or await connect_fn()
LoopHead(t, m, l) ==
    LET counted == Attempted(m)
    IN /\ manager' = counted
       /\ IF Exceeded(counted)
          THEN loops' = [loops EXCEPT ![t] = [l EXCEPT !.pc = "on_failure", !.failures = @ + 1]]
          ELSE /\ ConnectsMade < MaxConnects
               /\ loops' = [loops EXCEPT ![t] = [l EXCEPT !.pc = "connecting", !.connects = @ + 1]]

\* attempt_reconnect(connect_fn, on_failure=on_failure) up to its first await
attempt_reconnect(t, connect_fn) ==
    /\ loops[t].pc = "idle"
    /\ IF manager.is_reconnecting
       THEN /\ loops' = [loops EXCEPT ![t] = [@ EXCEPT !.pc = "returned",
                                                       !.connect_fn = connect_fn,
                                                       !.returned = "false"]]
            /\ UNCHANGED manager
       ELSE LoopHead(t, [manager EXCEPT !.is_reconnecting = TRUE],
                     [loops[t] EXCEPT !.connect_fn = connect_fn])
    /\ UNCHANGED reconnectFrame

\* connect_fn() is over: return True after a success, otherwise go to sleep
ConnectReturn(t, outcome) ==
    /\ loops[t].pc = "connecting"
    /\ outcome \in ConnectOutcomes(loops[t].connect_fn)
    /\ IF outcome = "true"
       THEN /\ manager' = Finished(Connected(manager))
            /\ loops' = [loops EXCEPT ![t] = [@ EXCEPT !.pc = "returned", !.returned = "true"]]
       ELSE /\ loops' = [loops EXCEPT ![t] = [@ EXCEPT !.pc = "sleeping"]]
            /\ UNCHANGED manager
    /\ UNCHANGED reconnectFrame

\* asyncio.sleep(delay) is over: raise the delay and go round the loop
Wake(t) ==
    /\ loops[t].pc = "sleeping"
    /\ LoopHead(t, Delayed(manager), loops[t])
    /\ UNCHANGED reconnectFrame

\* on_failure(None) is over: return False through the finally clause
FailureReturn(t) ==
    /\ loops[t].pc = "on_failure"
    /\ manager' = Finished(manager)
    /\ loops' = [loops EXCEPT ![t] = [@ EXCEPT !.pc = "returned", !.returned = "false"]]
    /\ UNCHANGED reconnectFrame

\* cancel(), called while some attempt_reconnect() is in its loop
cancel ==
    /\ \E t \in Calls : Running(loops[t]) /\ ~loops[t].cancelled
    /\ manager' = [manager EXCEPT !.is_reconnecting = FALSE]
    /\ loops' = [t \in Calls |-> IF Running(loops[t])
                                 THEN [loops[t] EXCEPT !.cancelled = TRUE]
                                 ELSE loops[t]]
    /\ UNCHANGED reconnectFrame

NextReconnect ==
    \/ \E t \in Calls : \E connect_fn \in {"failing", "flaky"} : attempt_reconnect(t, connect_fn)
    \/ \E t \in Calls : \E outcome \in {"true", "false", "raise"} : ConnectReturn(t, outcome)
    \/ \E t \in Calls : Wake(t)
    \/ \E t \in Calls : FailureReturn(t)
    \/ cancel

SpecReconnect == InitReconnect /\ [][NextReconnect]_vars

\* ------------------------------------------------------------ properties
Range(seq) == {seq[i] : i \in 1..Len(seq)}
Registered(p) == fut_state[p] # "nofuture"
Waiting == {p \in Prompts : pc[p] = "wait"}
CancelStep == running /\ ~running'

\* C1: a request is settled by exactly one resolver: its future's result is
\* set at most once, at most one respond() for its id returns True, the
\* result is never replaced, and add() hands its caller the response of the
\* resolver that succeeded.
C1_SingleResolution ==
    /\ \A p \in Prompts : Len(settled[p]) <= 1
    /\ \A id \in Ids : respond_true[id] <= 1
    /\ \A p \in Prompts : fut_state[p] = "done" =>
          /\ Len(settled[p]) = 1
          /\ fut_result[p] = accepted[p]
    /\ \A p \in Prompts : pc[p] = "answered" =>
          /\ received[p] = accepted[p]
          /\ (respond_true[RequestId(p)] = 1) = (settled[p] = <<"respond">>)

\* all three resolvers raced on one request: respond() was accepted, then the
\* timer fired and cancel_all() ran before add() resumed, and the human
\* response is still the future's result
C1_Witness ==
    \E p \in Prompts :
        /\ pc[p] = "wait"
        /\ respond_true[RequestId(p)] = 1
        /\ timeout_task[p] = "done"
        /\ ~running
        /\ fut_result[p].responded_by \in Users

\* C2: when neither respond() nor cancel_all() resolved the request, add()
\* returns the timeout response: approved = (default_action = "approve"),
\* responded_by = 0, auto_approved = True, policy_name = "timeout".
C2_TimeoutResponse ==
    \A p \in Prompts :
        (/\ pc[p] = "answered"
         /\ respond_true[RequestId(p)] = 0
         /\ "cancelled" \notin Range(settled[p]))
        => received[p] = [request_id |-> RequestId(p),
                          approved |-> (default_action = "approve"),
                          responded_by |-> 0,
                          auto_approved |-> TRUE,
                          policy_name |-> "timeout"]

\* a request timed out under default_action = "approve"
C2_Witness ==
    \E p \in Prompts :
        /\ pc[p] = "answered"
        /\ settled[p] = <<"timeout">>
        /\ default_action = "approve"
        /\ received[p].approved

\* C3: once respond() was accepted the timeout does not decide: the timer
\* never sets the result afterwards, add() returns the human response, and
\* when add() has returned the timer is cancelled or has run without effect.
C3_RespondBeatsTimeout ==
    \A p \in Prompts :
        (settled[p] # <<>> /\ settled[p][1] = "respond") =>
            /\ "timeout" \notin Range(settled[p])
            /\ fut_result[p].policy_name # "timeout"
            /\ fut_result[p] = accepted[p]
            /\ pc[p] = "answered" =>
                  /\ received[p] = accepted[p]
                  /\ received[p].responded_by \in Users
                  /\ timeout_task[p] \in {"cancelled", "done"}

\* the timer fired after the response was accepted and before add() resumed
C3_Witness ==
    \E p \in Prompts :
        /\ settled[p] = <<"respond">>
        /\ timeout_task[p] = "done"
        /\ pc[p] = "answered"

\* C4: every add() call returns: a caller suspended in add() eventually gets
\* its response, and cancel_all() leaves no suspended caller's future open.
C4_AddReturns ==
    /\ \A p \in Prompts : (pc[p] = "wait") ~> (pc[p] = "answered")
    /\ [][CancelStep => \A p \in Prompts :
              pc[p] = "wait" => fut_state'[p] = "done"]_vars

\* a caller that was suspended at shutdown returned the cancellation
C4_Witness ==
    \E p \in Prompts :
        /\ ~running
        /\ pc[p] = "answered"
        /\ received[p].policy_name = "cancelled"

\* C5 as stated: pending_count equals the number of registered requests
\* that are not yet resolved.
C5_PendingIffUnresolved ==
    /\ pending_count = Cardinality({p \in Prompts : Registered(p) /\ settled[p] = <<>>})
    /\ \A p \in Prompts :
          (get_pending(RequestId(p)) = p) = (Registered(p) /\ settled[p] = <<>>)

\* C5 amended: a request is in the pending table exactly while its add()
\* caller is suspended; pending_count is the number of suspended callers.
C5_PendingIffWaiting ==
    /\ pending_count = Cardinality(Waiting)
    /\ get_all_pending = Waiting
    /\ \A p \in Prompts : (get_pending(RequestId(p)) = p) = (pc[p] = "wait")
    /\ \A p \in Prompts : pc[p] = "answered" => settled[p] # <<>>

\* a resolved request is still reported, and another has been removed
C5_Witness ==
    \E p, q \in Prompts :
        /\ pc[p] = "wait" /\ settled[p] # <<>> /\ get_pending(RequestId(p)) = p
        /\ pc[q] = "answered" /\ get_pending(RequestId(q)) = None

\* C6: respond() returns False exactly when the id is not pending or the
\* request is already resolved, and then no queue state changes.
C6_RespondFalseNoEffect ==
    /\ [](\A id \in Ids :
            (~RespondAccepts(id)) = (pending[id] = None \/ settled[pending[id]] # <<>>))
    /\ [][\A id \in Ids :
            (~RespondAccepts(id) /\ \E u \in Users, a \in BOOLEAN : Respond(id, u, a)) =>
                UNCHANGED <<pending, response_futures, fut_state, fut_result,
                            timeout_task, accepted, received>>
       ]_vars

\* a state in which respond() is rejected and that the call leaves as it is:
\* the timeout has resolved the request, which is still in the table
C6_Witness ==
    \E p \in Prompts :
        /\ pc[p] = "wait"
        /\ settled[p] = <<"timeout">>
        /\ get_pending(RequestId(p)) = p
        /\ ~RespondAccepts(RequestId(p))

\* C7: cancel_all() resolves every pending unresolved request with the
\* cancellation response and returns the number of requests it resolved.
C7_CancelAllCount ==
    /\ \A p \in Prompts : "cancelled" \in Range(settled[p]) =>
          accepted[p] = [request_id |-> RequestId(p), approved |-> FALSE,
                         responded_by |-> 0, auto_approved |-> TRUE,
                         policy_name |-> "cancelled"]
    /\ last_cancel[1] =>
          last_cancel[2] = Cardinality({p \in Prompts : "cancelled" \in Range(settled[p])})

\* the number of audit records written for a prompt
AuditCount(p) == Cardinality({i \in 1..Len(audit_log) : audit_log[i] = p})

\* C8: every decision injected into the subprocess has exactly one audit
\* record.
C8_DecisionAudited ==
    \A p \in Prompts : Len(injected[p]) = AuditCount(p)

\* C9: a request is pending before the human is notified, so respond() to a
\* delivered notification, before any other resolution, is accepted.
C9_PendingBeforeNotify ==
    \A p \in Prompts :
        /\ notified[p] => Registered(p)
        /\ (notified[p] /\ settled[p] = <<>> /\ timeout_task[p] # "done")
              => RespondAccepts(RequestId(p))

\* C10: when sending the notification fails the default action is injected
\* ("y" for approve, "n" otherwise) and the request is not in the queue.
C10_NotifyFailureDefault ==
    \A p \in Prompts :
        pc[p] = "failed" =>
            /\ injected[p] = <<IF default_action = "approve" THEN "y" ELSE "n">>
            /\ pending[RequestId(p)] = None
            /\ response_futures[RequestId(p)] = None
            /\ ~Registered(p)
            /\ timeout_task[p] = "notask"

\* a notification failed under default_action = "approve"
C10_Witness ==
    \E p \in Prompts :
        /\ pc[p] = "failed"
        /\ default_action = "approve"
        /\ injected[p] = <<"y">>

\* the branches of _handle_callback that call PermissionQueue.respond()
Responded == {"confirmed", "expired"}

\* C11: a callback from an identity for which is_authorized() is false never
\* reaches respond() and resolves no request; is_authorized() denies every
\* identity when the allow-list is empty unless allow_anonymous is set.
C11_UnauthorizedRejected ==
    /\ reply.kind \in Responded => is_authorized(reply.user)
    /\ (reply.kind # "none" /\ ~is_authorized(reply.user)) => reply.kind = "unauthorized"
    /\ \A p \in Prompts :
          "respond" \in Range(settled[p]) => is_authorized(accepted[p].responded_by)
    /\ \A u \in Senders :
          is_authorized(u) = (allow_anonymous \/ u \in authorized_users)
    /\ (authorized_users = {} /\ ~allow_anonymous) =>
          \A u \in Senders : ~is_authorized(u)

\* an identity outside a non-empty allow-list pressed a genuine button of a
\* request that is still open, and was turned away
C11_Witness ==
    /\ reply.kind = "unauthorized"
    /\ reply.user = Stranger
    /\ authorized_users # {}
    /\ reply.signed_ok
    /\ \E p \in Prompts : RespondAccepts(RequestId(p))

\* C12: a callback whose data is not a fresh token signed by the bridge's
\* signer is rejected: it never reaches respond() and resolves no request.
C12_UnsignedRejected ==
    reply.kind \in Responded => reply.signed_ok

\* C13: a callback whose request id fails validate_callback_request_id is
\* rejected at the boundary and never passed to respond().
C13_MalformedIdRejected ==
    reply.kind \in Responded => reply.id_ok

\* positions of the configured rules that are enabled and whose action and
\* pattern match
MatchingRules(action, target) ==
    {i \in 1..Len(policy_config) :
        /\ policy_config[i].enabled
        /\ policy_config[i].action = action
        /\ pattern_matches(policy_config[i].pattern, target)}

FirstOf(S) == CHOOSE i \in S : \A j \in S : i <= j

\* C14: evaluate() returns the outcome of the first enabled rule, in list
\* order, whose action equals the request's and whose pattern matches the
\* target: auto-approve when the risk is within that rule's max_risk,
\* otherwise risk-exceeded naming that rule, whatever later rules would say;
\* no-match when no enabled rule matches action and pattern.
C14_FirstMatchDecides ==
    policy_result # NoResult =>
        LET r == policy_result
            M == MatchingRules(r.action, r.target)
        IN IF M = {}
           THEN r.policy = NoPolicy /\ ~r.matched /\ r.decision = "require_manual"
           ELSE /\ r.policy = policy_config[FirstOf(M)]
                /\ IF risk_acceptable(policy_config[FirstOf(M)].max_risk, r.risk_level)
                   THEN r.matched /\ r.decision = "auto_approve"
                   ELSE ~r.matched /\ r.decision = "require_manual"

\* two enabled rules match, the first one's ceiling is exceeded, the second
\* would have approved, and the result is risk-exceeded naming the first
C14_Witness ==
    /\ policy_result # NoResult
    /\ MatchingRules(policy_result.action, policy_result.target) = {1, 2}
    /\ policy_result.policy = policy_config[1]
    /\ ~policy_result.matched
    /\ risk_acceptable(policy_config[2].max_risk, policy_result.risk_level)

\* position of a level in the order low < medium < high < critical, 0 for
\* any other value (levels are compared in lower case)
Rank(level) ==
    CASE Lower(level) = "low" -> 1
      [] Lower(level) = "medium" -> 2
      [] Lower(level) = "high" -> 3
      [] Lower(level) = "critical" -> 4
      [] OTHER -> 0

\* _risk_acceptable agrees with the order on every pair of level names
RiskTableInOrder ==
    \A m \in RiskNames, a \in RiskNames :
        risk_acceptable(m, a) = (Rank(m) # 0 /\ Rank(a) # 0 /\ Rank(a) <= Rank(m))

\* C15: a rule auto-approves only when the request's risk is at or below its
\* max_risk in the order low < medium < high < critical; when either level
\* is none of the four the comparison fails, the request is not
\* auto-approved, and evaluate() still returns a result.
C15_RiskOrder ==
    /\ RiskTableInOrder
    /\ policy_result.decision = "auto_approve" =>
          /\ Rank(policy_result.risk_level) # 0
          /\ Rank(policy_result.policy.max_risk) # 0
          /\ Rank(policy_result.risk_level) <= Rank(policy_result.policy.max_risk)
    /\ evaluation_count > 0 =>
          /\ policy_result # NoResult
          /\ policy_result.policies_checked = evaluation_count

\* a request of unknown risk met a matching rule, and a request of low risk
\* met a rule with an unknown ceiling: neither was auto-approved
C15_Witness ==
    /\ policy_result.policy # NoPolicy
    /\ policy_result.decision = "require_manual"
    /\ \/ policy_result.risk_level = "unknown" /\ Rank(policy_result.policy.max_risk) # 0
       \/ policy_result.risk_level = "low" /\ policy_result.policy.max_risk = "bogus"

\* C16: without rotation, the first record written has prev_hash "" and
\* every later record's prev_hash is the hmac of the record written just
\* before it, each hmac being HMAC(key, previous hash || canonical payload).
C16_HashChain ==
    rotated = <<>> =>
        /\ Len(log_file) = event_count
        /\ \A i \in 1..Len(log_file) :
              /\ log_file[i].prev_hash = IF i = 1 THEN Hex(EmptyHash) ELSE log_file[i - 1].hmac
              /\ log_file[i].hmac =
                    Hex(AuditHMAC(AuditKey, FromHex(log_file[i].prev_hash), log_file[i].event))
        /\ last_hash = IF log_file = <<>> THEN EmptyHash
                       ELSE FromHex(log_file[Len(log_file)].hmac)

\* three records were written to one file
C16_Witness ==
    /\ rotated = <<>>
    /\ Len(log_file) >= MaxEvents
    /\ log_file[2].prev_hash = log_file[1].hmac
    /\ log_file[1].prev_hash = Hex(EmptyHash)

\* C17: whatever number of events one AuditLogger has appended, verifying
\* the log file with the same key returns valid = True and no errors.
C17_RoundTrip ==
    verify_result.target.kind = "intact" =>
        verify_result.valid /\ verify_result.errors = {}

\* C18: when the event payload of one stored record, line i, is modified,
\* verification returns valid = False and reports an invalid-HMAC error for
\* line i.
C18_TamperDetected ==
    verify_result.target.kind = "edit" =>
        /\ ~verify_result.valid
        /\ <<verify_result.target.i, "hmac">> \in verify_result.errors

\* the payload of a middle record of an intact chain was replaced and the
\* verifier names that line and no other
C18_Witness ==
    /\ verify_result.target.kind = "edit"
    /\ rotated = <<>>
    /\ verify_result.target.i = 2
    /\ Len(log_file) = 3
    /\ verify_result.errors = {<<2, "hmac">>}

\* C19: deleting any one entry (first, middle or last) makes verification
\* return valid = False with a hash-chain-broken error, and swapping any two
\* entries makes it return valid = False.
C19_StructureDetected ==
    /\ verify_result.target.kind = "delete" =>
          /\ ~verify_result.valid
          /\ \E e \in verify_result.errors : e[2] = "chain"
    /\ verify_result.target.kind = "swap" => ~verify_result.valid

\* C20: the first record written after a rotation has prev_hash "" and an
\* hmac over an empty previous hash, and the new file and every rotated file
\* verify valid on their own.
C20_RotationNewChain ==
    /\ (rotated # <<>> /\ log_file # <<>>) =>
          /\ log_file[1].prev_hash = Hex(EmptyHash)
          /\ log_file[1].hmac = Signature(AuditKey, EmptyHash, log_file[1].event)
    /\ (rotated # <<>> /\ verify_result.target.kind \in {"intact", "segment"}) =>
          verify_result.valid

\* C21: with log() called by several callers at once and no write failing,
\* no two records of the file carry the same prev_hash, each record's
\* prev_hash is the hmac of the record before it, and the file verifies.
C21_ConcurrentChain ==
    (rotated = <<>> /\ Complete(log_file) = log_file) =>
        /\ \A i, j \in 1..Len(log_file) :
              i # j => log_file[i].prev_hash # log_file[j].prev_hash
        /\ \A i \in 1..Len(log_file) :
              log_file[i].prev_hash = IF i = 1 THEN Hex(EmptyHash) ELSE log_file[i - 1].hmac
        /\ verify_audit_log(log_file, AuditKey).valid

\* C22: a log() call whose write fails returns without raising and leaves
\* the running previous hash and the event count as they were, so that with
\* one caller every record written chains to the last record written before
\* it, across failed writes.
C22_FailureKeepsChain ==
    /\ [][\A t \in DOMAIN log_pc :
            (log_pc[t] = "signed" /\ log_pc'[t] = "idle") =>
                /\ last_hash' = last_hash
                /\ event_count' = event_count]_vars
    /\ [](DOMAIN log_pc = {1} =>
            LET w == Written(Len(rotated))
                k == IF log_pc[1] = "written" THEN Len(w) - 1 ELSE Len(w)
            IN /\ \A i \in 1..Len(w) :
                     w[i].prev_hash = IF i = 1 THEN Hex(EmptyHash) ELSE w[i - 1].hmac
               /\ last_hash = IF k = 0 THEN EmptyHash ELSE FromHex(w[k].hmac)
               /\ event_count = k)

\* one caller: a record, a write that failed part way, and a record written
\* after the failure that chains to the first
C22_Witness ==
    /\ DOMAIN log_pc = {1}
    /\ Len(log_file) = 3
    /\ log_file[2] = Torn
    /\ log_file[3].prev_hash = log_file[1].hmac
    /\ event_count = 2

\* C23: a check_rate_limit() made when requests_per_minute or more requests
\* of the identity are younger than 60 seconds returns (False, wait) with
\* wait > 0; one made when none is younger than 60 seconds and no denial
\* backoff is running returns (True, None).
C23_SlidingWindow ==
    [][rate_result'.op = "check_rate_limit" =>
          LET st == user_states[rate_result'.user]
              recent == {i \in 1..Len(st.request_times) :
                            now - st.request_times[i] < WindowSeconds}
              backing_off == st.backoff_until # NoTime /\ now < st.backoff_until
          IN /\ Cardinality(recent) >= requests_per_minute =>
                    ~rate_result'.allowed /\ rate_result'.wait > 0
             /\ (recent = {} /\ ~backing_off) =>
                    rate_result'.allowed /\ rate_result'.wait = 0]_vars

\* the window is full, no backoff runs, and the check refuses with the time
\* left until the oldest request leaves the window
C23_Witness ==
    /\ rate_result.op = "check_rate_limit"
    /\ ~rate_result.allowed
    /\ now = 2 * TickStep
    /\ user_states[rate_result.user].backoff_until = NoTime
    /\ Len(user_states[rate_result.user].request_times) = requests_per_minute
    /\ rate_result.wait = 10 * (WindowSeconds - TickStep)

\* C24: record_denial() returns having raised the denial count by one and,
\* when the new count is at or above denial_threshold, having set
\* backoff_until to now + min(base * 2^(count - threshold), max); below the
\* threshold it sets no backoff; and check_rate_limit() returns (False, wait)
\* with wait > 0 while now is before backoff_until.
C24_DenialBackoff ==
    [][/\ rate_result'.op = "record_denial" =>
             LET u == rate_result'.user
                 count == user_states[u].denial_count + 1
             IN /\ ~rate_result'.raised
                /\ user_states'[u].denial_count = count
                /\ user_states'[u].backoff_until =
                       IF count >= denial_threshold
                       THEN now + Capped(denial_backoff_base, count - denial_threshold)
                       ELSE user_states[u].backoff_until
                /\ count < denial_threshold => user_states'[u].backoff_until = NoTime
                /\ user_states'[u].backoff_until <= now + denial_backoff_max
       /\ rate_result'.op = "check_rate_limit" =>
             LET st == user_states[rate_result'.user]
             IN (st.backoff_until # NoTime /\ now < st.backoff_until) =>
                    ~rate_result'.allowed /\ rate_result'.wait > 0]_vars

\* C25: record_approval() sets the identity's denial count to 0 and clears
\* its backoff, leaving its request times and every other identity's state
\* as they were; so an identity whose count is below denial_threshold is
\* never in backoff.
C25_ApprovalResets ==
    /\ [][rate_result'.op = "record_approval" =>
             LET u == rate_result'.user
             IN /\ user_states'[u].denial_count = 0
                /\ user_states'[u].backoff_until = NoTime
                /\ user_states'[u].request_times = user_states[u].request_times
                /\ \A v \in Identities \ {u} : user_states'[v] = user_states[v]]_vars
    /\ [](\A u \in Identities :
             user_states[u].denial_count < denial_threshold =>
                 user_states[u].backoff_until = NoTime)

\* identity 2 was denied, made a request and was approved, while identity 1
\* is still in its backoff
C25_Witness ==
    /\ rate_result.op = "record_approval"
    /\ rate_result.user = 2
    /\ user_states[2].last_denial # NoTime
    /\ user_states[2].request_times # <<>>
    /\ user_states[2].denial_count = 0
    /\ user_states[1].backoff_until > now

\* C26: no call on an identity is lost to another: every record_denial()
\* raises the denial count by exactly one and every record_request() adds
\* exactly one timestamp to the window, whatever calls come before or after.
C26_NoLostUpdate ==
    [][/\ rate_result'.op = "record_denial" =>
             user_states'[rate_result'.user].denial_count =
                 user_states[rate_result'.user].denial_count + 1
       /\ rate_result'.op = "record_request" =>
             user_states'[rate_result'.user].request_times =
                 Append(user_states[rate_result'.user].request_times, now)
       /\ rate_result'.op = "check_rate_limit" =>
             /\ user_states'[rate_result'.user].denial_count =
                    user_states[rate_result'.user].denial_count
             /\ \A i \in 1..Len(user_states[rate_result'.user].request_times) :
                    LET x == user_states[rate_result'.user].request_times[i]
                    IN now - x < WindowSeconds =>
                           \E j \in 1..Len(user_states'[rate_result'.user].request_times) :
                               user_states'[rate_result'.user].request_times[j] = x]_vars

\* record_denial() and record_request() calls on one identity made at the
\* same instant, all counted
C26_Witness ==
    /\ now = 0
    /\ rate_ops = MaxRateOps
    /\ \E u \in Identities :
          /\ user_states[u].denial_count = denial_threshold
          /\ Len(user_states[u].request_times) = MaxRateOps - denial_threshold

\* the time sign() wrote into the token
SignedAt == ParseInt(RSplit(sig_token)[2]).value

\* C27: for every payload, also one that contains "|", verify(sign(p)) with
\* the same key returns payload p when it is evaluated no later than max_age
\* seconds after signing, and returns invalid when it is evaluated later.
C27_SignVerifyRoundTrip ==
    (sig_data # <<>> /\ sig_data = sig_token) =>
        IF sig_clock - SignedAt <= CALLBACK_MAX_AGE_SECONDS
        THEN sig_out.valid /\ sig_out.payload = sig_input
        ELSE ~sig_out.valid

\* the token of "a|b" verified exactly max_age seconds after it was signed
C27_Witness ==
    /\ sig_input = Text(<<0, Bar, 1>>)
    /\ sig_data = sig_token
    /\ sig_clock - SignedAt = CALLBACK_MAX_AGE_SECONDS
    /\ sig_out.valid
    /\ sig_out.payload = sig_input

\* C28: a token that differs from a signed token in any one character, in
\* the payload, the timestamp or the signature, its last character
\* included, is invalid.
C28_AnyMutationInvalid ==
    (sig_data # <<>> /\ sig_data # sig_token) => ~sig_out.valid

\* C29: the offline queue never holds more than max_size events, and the
\* event an enqueue() discards for room is the one enqueued earliest of the
\* events queued, also after a flush() has re-queued events.
C29_DropOldest ==
    /\ [](Len(offline_queue) <= queue_max_size)
    /\ [][(offline_result'.op = "enqueue" /\ offline_result'.dropped # NoEvent) =>
             \A i \in 1..Len(offline_queue) :
                 offline_clock - offline_queue[i].timestamp < max_age_seconds =>
                     offline_result'.dropped.id <= offline_queue[i].id]_vars

\* C30: flush(handler) calls the handler once for every unexpired queued
\* event, by descending priority and then ascending timestamp; afterwards
\* the queue holds exactly the events whose call returned False or raised,
\* the value returned is the number of calls that returned True, and no
\* event is lost or duplicated.
C30_FlushOrder ==
    [][offline_result'.op = "flush" =>
          LET calls == offline_result'.calls
              live == {offline_queue[i] : i \in
                          {j \in 1..Len(offline_queue) :
                              offline_clock - offline_queue[j].timestamp < max_age_seconds}}
              failed == {i \in 1..Len(calls) : calls[i].outcome # "true"}
          IN /\ {calls[i].event : i \in 1..Len(calls)} = live
             /\ Len(calls) = Cardinality(live)
             /\ \A i, j \in 1..Len(calls) :
                    i < j =>
                       \/ calls[i].event.priority > calls[j].event.priority
                       \/ /\ calls[i].event.priority = calls[j].event.priority
                          /\ calls[i].event.timestamp <= calls[j].event.timestamp
             /\ {offline_queue'[i] : i \in 1..Len(offline_queue')} =
                    {calls[i].event : i \in failed}
             /\ Len(offline_queue') = Cardinality(failed)
             /\ offline_result'.returned = Len(calls) - Cardinality(failed)]_vars

\* a flush of two events of different priority, the later one first, one
\* delivered and the other kept after its handler raised
C30_Witness ==
    /\ offline_result.op = "flush"
    /\ Len(offline_result.calls) = 2
    /\ offline_result.calls[1].event.priority > offline_result.calls[2].event.priority
    /\ offline_result.calls[1].event.id > offline_result.calls[2].event.id
    /\ offline_result.calls[1].outcome = "true"
    /\ offline_result.calls[2].outcome = "raise"
    /\ offline_result.returned = 1
    /\ offline_queue = <<offline_result.calls[2].event>>

\* C31: with max_attempts = N > 0, an attempt_reconnect() call whose connect
\* function never succeeds calls it exactly N times, then invokes on_failure
\* once and returns False; with max_attempts = 0 it never gives up, so it
\* never invokes on_failure and returns only True.  Stated for the calls that
\* got past the is_reconnecting test, on a manager cancel() was not called on.
C31_BoundedAttempts ==
    \A t \in DOMAIN loops :
        LET l == loops[t]
            entered == l.connects > 0 \/ l.failures > 0
        IN (entered /\ \A u \in DOMAIN loops : ~loops[u].cancelled) =>
              /\ (l.pc = "returned" /\ l.connect_fn = "failing" /\ manager.max_attempts > 0) =>
                    /\ l.connects = manager.max_attempts
                    /\ l.failures = 1
                    /\ l.returned = "false"
              /\ manager.max_attempts = 0 =>
                    /\ l.failures = 0
                    /\ l.pc = "returned" => l.returned = "true"

\* C32: once cancel() has been called while an attempt_reconnect() call was
\* in its retry loop, that call makes no further connect attempt.
C32_CancelStopsLoop ==
    [][\A t \in DOMAIN loops :
          loops[t].cancelled => loops'[t].connects = loops[t].connects]_vars

\* C40: an attempt_reconnect() call made while another call is in its retry
\* loop returns False without calling the connect function, so that at most
\* one retry loop is active, also after cancel().
C40_SingleLoop ==
    [][\A t \in DOMAIN loops :
          (/\ loops[t].pc = "idle"
           /\ loops'[t].pc # "idle"
           /\ \E u \in DOMAIN loops : Running(loops[u])) =>
              /\ loops'[t].returned = "false"
              /\ loops'[t].connects = 0
              /\ Cardinality({u \in DOMAIN loops : Running(loops'[u])}) <= 1]_vars

\* C33: verify_audit_log reports no invalid-HMAC error for a record whose
\* hmac is HMAC(key, the record's own stored prev_hash || its payload), also
\* when that prev_hash differs from the hash the verifier has reached.
C33_StoredPrevHash ==
    LET file == Examined(verify_result.target)
    IN verify_result.target.kind # "none" =>
          \A i \in 1..Len(file) :
              file[i].hmac = Signature(AuditKey, FromHex(file[i].prev_hash), file[i].event) =>
                  <<i, "hmac">> \notin verify_result.errors

\* C38: after a new AuditLogger with the same key has appended events to the
\* non-empty file an earlier one left, the whole file verifies valid.
C38_RestartContinuesChain ==
    (/\ verify_result.target.kind = "intact"
     /\ rotated = <<>>
     /\ 0 < event_count
     /\ event_count < Len(log_file)) => verify_result.valid

\* C34: "src/*.ts" matches "src/index.ts" and not "src/components/Button.ts",
\* "src/**/*.ts" matches "src/components/Button.ts", and a pattern with a
\* brace alternation matches the targets one of its alternatives matches.
C34_StarStopsAtSeparator ==
    LET pattern == policy_config[1].pattern
        target == policy_result.target
        matched == policy_result.matched
    IN policy_result # NoResult =>
          /\ (pattern = SrcStarTs /\ target = SrcIndexTs) => matched
          /\ (pattern = SrcStarTs /\ target = SrcNestedTs) => ~matched
          /\ (pattern = SrcDeepTs /\ target = SrcNestedTs) => matched
          /\ pattern = AnyTsOrJs => (matched <=> (fnmatch(target, AnyTs) \/ fnmatch(target, AnyJs)))

\* C35: for every prompt the orchestrator passes exactly one answer, "y" or
\* "n", to monitor.inject once the prompt is resolved (policy auto-approval,
\* human response, timeout, cancel_all or notification failure), none before,
\* and never two; the answer is "y" exactly when the resolution approves.
C35_ExactlyOneAnswer ==
    \A p \in Prompts :
        /\ Len(injected[p]) <= 1
        /\ pc[p] \in {"auto", "failed", "answered"} <=> Len(injected[p]) = 1
        /\ \A i \in 1..Len(injected[p]) : injected[p][i] \in {"y", "n"}
        /\ pc[p] = "auto" => injected[p] = <<"y">>
        /\ pc[p] = "answered" => injected[p] = <<IF received[p].approved THEN "y" ELSE "n">>

\* one prompt was answered "n" after cancel_all, the other by the default
\* action after its notification failed
C35_Witness ==
    \E p, q \in Prompts :
        /\ pc[p] = "answered"
        /\ received[p].policy_name = "cancelled"
        /\ injected[p] = <<"n">>
        /\ pc[q] = "failed"
        /\ Len(injected[q]) = 1

\* C36: when add() is called with the id of a request that is still pending,
\* every add() caller still returns, and a timeout timer resolves only the
\* future of the add() call that started it.
C36_DuplicateIdNoOrphan ==
    /\ \A p \in Prompts : (pc[p] = "wait") ~> (pc[p] = "answered")
    /\ [][\A p, f \in Prompts :
             (/\ timeout_task[p] = "sleeping"
              /\ timeout_task'[p] = "done"
              /\ fut_state[f] = "pending"
              /\ fut_state'[f] = "done") => f = p]_vars

C39_FlushTerminates ==
    /\ (flushing.pc \in {"handler", "blocked"}) ~> (flushing.pc = "done" /\ ~lock.locked)
    /\ (lock.waiters # <<>>) ~> (lock.waiters = <<>>)
====
